---- MODULE Spec2Model ----
(***************************************************************************)
(* CandiLift: the candidate/job fit analysis engine.                       *)
(*                                                                         *)
(* The engine is a stateless pipeline of pure functions.  Every operation  *)
(* is modelled as an action that takes a call from pc = "start" (the       *)
(* arguments are in the state) to pc = "done" (the return value is in the  *)
(* state).  Each component has its own specification, whose Init draws the *)
(* arguments from bounded sets.                                            *)
(*                                                                         *)
(* Python floats are modelled by exact integer arithmetic on scaled        *)
(* values; where IEEE-754 double evaluation of the code's expression       *)
(* differs from the exact value on the inputs drawn, the difference is     *)
(* modelled explicitly (see FloatShortfall).                               *)
(***************************************************************************)
EXTENDS Integers, Sequences, FiniteSets, TLC

VARIABLES
    pc,               \* position of the call in progress: "start" | "done"
    ats_score,        \* _calculate_likelihood_score: argument ats_score
    recruiter_score,  \* _calculate_likelihood_score: argument recruiter_score
    resume_data,      \* analysis_engine: the resume_data dictionary
    job_data,         \* analysis_engine: the job_data dictionary
    likelihood_result, \* return value of _calculate_likelihood_score
    resume_text,      \* AnalysisEngine.analyze: the text extracted from the resume file
    job_text,         \* AnalysisEngine.analyze: the job description text
    analysis,         \* return value of AnalysisEngine.analyze
    resume,           \* services: the ResumeData profile given to a checker or analyzer
    formatting,       \* return value of FormattingChecker.check
    job,              \* services: the JobData given to an analyzer
    keyword_analysis, \* return value of KeywordAnalyzer.analyze
    impact,           \* services: the ImpactAnalysis given to an engine
    weighted_ats,     \* return value of services ScoringEngine.calculate_ats_score
    recommendation_list, \* return value of services RecommendationEngine.generate_recommendations
    bullet,           \* ImpactAnalyzer._analyze_bullet_point: argument bullet_text
    bullet_analysis,  \* return value of ImpactAnalyzer._analyze_bullet_point
    job_recommendations, \* return value of AnalysisEngine._find_similar_jobs
    request,          \* the arguments of a call of an analyze_resume endpoint
    response,         \* what the endpoint answered: a status code and a detail
    ats_analysis      \* the return values of the runs of ATSSimulator.simulate_ats_analysis

likelihood_vars == <<ats_score, recruiter_score, resume_data, job_data, likelihood_result>>
analyze_vars == <<resume_text, job_text, analysis>>
formatting_vars == <<resume, formatting>>
keyword_vars == <<job, keyword_analysis>>
service_vars == <<impact, weighted_ats, recommendation_list, bullet, bullet_analysis,
                  job_recommendations>>
endpoint_vars == <<request, response, ats_analysis>>
vars == <<pc, likelihood_vars, analyze_vars, formatting_vars, keyword_vars, service_vars,
          endpoint_vars>>

\* The value of a variable that the running specification does not use.
None == "None"

\* The variables of the endpoints and of the ATS simulator, in a
\* specification that calls neither.
EndpointIdle == request = None /\ response = None /\ ats_analysis = None

Min(a, b) == IF a <= b THEN a ELSE b
Max(a, b) == IF a >= b THEN a ELSE b

(***************************************************************************)
(* Bounds of the model.                                                    *)
(***************************************************************************)
\* Largest number of years of experience drawn for a resume or a job.
MaxYears == 6

\* Largest word count drawn for a resume.
MaxWords == 1200

\* Largest headline score (ScoringEngine: max_score).
max_score == 100

(***************************************************************************)
(* Skill names, as extract_skills / extract_required_skills report them    *)
(* (skill.title()).  The order is the order of the lookup table.           *)
(***************************************************************************)
SkillUniverse ==
    <<"Python", "Javascript", "Java", "Html", "Css", "React", "Sql", "Aws", "Docker", "Git">>

\* The skills at positions lo..hi of the universe.
SkillRange(lo, hi) == {SkillUniverse[i] : i \in lo..hi}

\* The job skill sets drawn: the first n skills of the universe.
JobSkillSets == {SkillRange(1, n) : n \in 0..Len(SkillUniverse)}

\* The resume skill sets drawn: every run of consecutive skills of the universe.
ResumeSkillSets ==
    {SkillRange(lo, hi) : lo \in 1..Len(SkillUniverse), hi \in 0..Len(SkillUniverse)}

(***************************************************************************)
(* AnalysisEngine._assess_domain_fit.                                      *)
(* overlap_ratio = skill_overlap / total_job_skills is compared with 0.7   *)
(* and 0.4, and resume_years with job_years * 0.8 and job_years * 0.5; the *)
(* comparisons are made on integers (both sides times 10).  The ratio is   *)
(* kept as the pair (skill_overlap_count, total_job_skills).               *)
(***************************************************************************)
RatioAtLeast_mutant_empty_is_full(num, den, tenths) ==
    IF den = 0 THEN 10 >= tenths ELSE 10 * num >= tenths * den

RatioAtLeast(num, den, tenths) ==
    IF den = 0 THEN 0 >= tenths ELSE 10 * num >= tenths * den

fit_level_mutant_or(skill_overlap, total_job_skills, resume_years, job_years) ==
    IF RatioAtLeast(skill_overlap, total_job_skills, 7) \/ 10 * resume_years >= 8 * job_years
    THEN "good"
    ELSE IF RatioAtLeast(skill_overlap, total_job_skills, 4) /\ 10 * resume_years >= 5 * job_years
    THEN "moderate"
    ELSE "poor"

fit_level(skill_overlap, total_job_skills, resume_years, job_years) ==
    IF RatioAtLeast(skill_overlap, total_job_skills, 7) /\ 10 * resume_years >= 8 * job_years
    THEN "good"
    ELSE IF RatioAtLeast(skill_overlap, total_job_skills, 4) /\ 10 * resume_years >= 5 * job_years
    THEN "moderate"
    ELSE "poor"

assess_domain_fit(rd, jd) ==
    LET resume_skills == rd.skills
        job_skills == jd.required_skills
        skill_overlap == Cardinality(resume_skills \cap job_skills)
        total_job_skills == Cardinality(job_skills)
        resume_years == rd.experience.years_experience
        job_years == jd.requirements.years_experience_required
    IN  [fit_level |-> fit_level(skill_overlap, total_job_skills, resume_years, job_years),
         skill_overlap_count |-> skill_overlap,
         total_job_skills |-> total_job_skills,
         experience_match |->
             IF job_years > 0 THEN 10 * resume_years >= 8 * job_years ELSE TRUE]

(***************************************************************************)
(* AnalysisEngine._calculate_likelihood_score.                             *)
(* domain_penalty is in tenths (1.0 / 0.8 / 0.5).                          *)
(***************************************************************************)
domain_penalty(level) ==
    IF level = "poor" THEN 5 ELSE IF level = "moderate" THEN 8 ELSE 10

\* The inputs on which the double-precision value of
\*   ((ats * 0.6) + (recruiter * 0.4)) * 0.15 * 0.8 * domain_penalty
\* lies just below an integer that the exact value reaches, so that int()
\* truncates to one less: 41 * 0.6 = 24.599999999999998 and
\* 82 * 0.6 = 49.199999999999996 in doubles.  For every other pair of scores
\* in 0..100 and every penalty, int() of the double equals the exact floor.
FloatShortfall(ats, rec, penalty) ==
    \/ ats = 41 /\ rec = 1 /\ penalty = 10
    \/ ats = 82 /\ rec = 2 /\ penalty \in {10, 5}

truncated_score_mutant_no_competition(ats, rec, penalty) ==
    ((6 * ats + 4 * rec) * 15 * penalty) \div 10000

\* int(weighted_score * market_adjustment * competition_penalty * domain_penalty)
\* with weighted_score = ats * 0.6 + rec * 0.4, market_adjustment = 0.15 and
\* competition_penalty = 0.8.
truncated_score(ats, rec, penalty) ==
    ((6 * ats + 4 * rec) * 15 * 8 * penalty) \div 100000
        - (IF FloatShortfall(ats, rec, penalty) THEN 1 ELSE 0)

\* AnalysisEngine._generate_likelihood_feedback: the band of the base
\* explanation, named by its first words.
likelihood_explanation(score) ==
    IF score >= 20 THEN "Above average chance"
    ELSE IF score >= 15 THEN "Below average chance"
    ELSE IF score >= 10 THEN "Very low chance"
    ELSE IF score >= 5 THEN "Minimal chance"
    ELSE "Extremely low chance"

final_score_mutant_uncapped(ats, rec, level) ==
    ((6 * ats + 4 * rec) * domain_penalty(level)) \div 100

final_score_mutant_inverted(ats, rec, level) ==
    Min(truncated_score(ats, rec, 15 - domain_penalty(level)), 25)

final_score(ats, rec, level) ==
    Min(truncated_score(ats, rec, domain_penalty(level)), 25)

calculate_likelihood_score(ats, rec, rd, jd) ==
    LET domain_fit == assess_domain_fit(rd, jd)
    IN  [score |-> final_score(ats, rec, domain_fit.fit_level),
         explanation |-> likelihood_explanation(final_score(ats, rec, domain_fit.fit_level)),
         domain_fit |-> domain_fit]

(***************************************************************************)
(* Specification SpecLikelihood: calls of _calculate_likelihood_score on   *)
(* every pair of scores in 0..100, for resume/job dictionaries of each fit *)
(* level.                                                                  *)
(***************************************************************************)
ResumeDict(skills, years) ==
    [skills |-> skills, experience |-> [years_experience |-> years]]
JobDict(skills, years) ==
    [required_skills |-> skills, requirements |-> [years_experience_required |-> years]]

\* The variables of AnalysisEngine.analyze, in a specification that does not call it.
AnalyzeIdle == resume_text = None /\ job_text = None /\ analysis = None

\* The variables of FormattingChecker.check, in a specification that does not call it.
FormattingIdle == resume = None /\ formatting = None

\* The variables of KeywordAnalyzer.analyze, in a specification that does not call it.
KeywordIdle == job = None /\ keyword_analysis = None

\* The variables of the scoring, recommendation and impact services, in a
\* specification that calls none of them.
ServiceIdle ==
    /\ impact = None /\ weighted_ats = None /\ recommendation_list = None
    /\ bullet = None /\ bullet_analysis = None
    /\ job_recommendations = None

\* Pairs of dictionaries: full overlap and enough years; half overlap and
\* half the years; no overlap; a job without extractable skills.
FitProfiles ==
    {<<ResumeDict(SkillRange(1, 4), 5), JobDict(SkillRange(1, 4), 5)>>,
     <<ResumeDict(SkillRange(1, 2), 3), JobDict(SkillRange(1, 4), 5)>>,
     <<ResumeDict(SkillRange(5, 6), 1), JobDict(SkillRange(1, 4), 5)>>,
     <<ResumeDict(SkillRange(1, 2), 3), JobDict({}, 0)>>}

InitLikelihood ==
    /\ pc = "start"
    /\ ats_score \in 0..max_score
    /\ recruiter_score \in 0..max_score
    /\ \E p \in FitProfiles : resume_data = p[1] /\ job_data = p[2]
    /\ likelihood_result = None
    /\ AnalyzeIdle
    /\ FormattingIdle
    /\ KeywordIdle
    /\ ServiceIdle
    /\ EndpointIdle

CalculateLikelihoodScore ==
    /\ pc = "start"
    /\ likelihood_result' =
           calculate_likelihood_score(ats_score, recruiter_score, resume_data, job_data)
    /\ pc' = "done"
    /\ UNCHANGED <<ats_score, recruiter_score, resume_data, job_data, analyze_vars,
                   formatting_vars, keyword_vars, service_vars, endpoint_vars>>

NextLikelihood == CalculateLikelihoodScore

SpecLikelihood == InitLikelihood /\ [][NextLikelihood]_vars

(***************************************************************************)
(* Specification SpecDomainFit: calls of _calculate_likelihood_score on    *)
(* every resume/job skill set drawn and every pair of years in             *)
(* 0..MaxYears, for a few pairs of scores.                                 *)
(***************************************************************************)
InitDomainFit ==
    /\ pc = "start"
    /\ ats_score \in {0, 55, max_score}
    /\ recruiter_score \in {30, max_score}
    /\ \E rs \in ResumeSkillSets, ry \in 0..MaxYears : resume_data = ResumeDict(rs, ry)
    /\ \E js \in JobSkillSets, jy \in 0..MaxYears : job_data = JobDict(js, jy)
    /\ likelihood_result = None
    /\ AnalyzeIdle
    /\ FormattingIdle
    /\ KeywordIdle
    /\ ServiceIdle
    /\ EndpointIdle

SpecDomainFit == InitDomainFit /\ [][NextLikelihood]_vars

----------------------------------------------------------------------------
(***************************************************************************)
(* C1: for every ATS score and recruiter score in 0..100 and every fit     *)
(* level, the likelihood score returned is an integer in 0..25.            *)
(***************************************************************************)
C1_LikelihoodInRange ==
    pc = "done" => likelihood_result.score \in 0..25

C1_Witness ==
    /\ pc = "done"
    /\ ats_score = max_score /\ recruiter_score = max_score
    /\ likelihood_result.domain_fit.fit_level = "good"
    /\ likelihood_result.score = 12

(***************************************************************************)
(* C2: for fixed ATS and recruiter scores the likelihood score does not    *)
(* increase as the fit level goes good -> moderate -> poor: the score      *)
(* returned for the call's fit level is at most the score of the same call *)
(* under every better level and at least that under every worse level.     *)
(***************************************************************************)
FitRank(level) == IF level = "good" THEN 2 ELSE IF level = "moderate" THEN 1 ELSE 0

C2_LikelihoodMonotone ==
    pc = "done" =>
        \A level \in {"good", "moderate", "poor"} :
            LET mine == likelihood_result.domain_fit.fit_level
                other == final_score(ats_score, recruiter_score, level)
            IN  /\ FitRank(level) >= FitRank(mine) => other >= likelihood_result.score
                /\ FitRank(level) <= FitRank(mine) => other <= likelihood_result.score

C2_Witness ==
    /\ pc = "done"
    /\ likelihood_result.domain_fit.fit_level = "moderate"
    /\ final_score(ats_score, recruiter_score, "good") > likelihood_result.score
    /\ final_score(ats_score, recruiter_score, "poor") < likelihood_result.score

(***************************************************************************)
(* C9: _assess_domain_fit returns "good" exactly when the overlap ratio is *)
(* >= 0.7 and resume years >= 0.8 x required years, "moderate" exactly     *)
(* when it is not good and the ratio is >= 0.4 and resume years >= 0.5 x   *)
(* required years, and "poor" otherwise; the likelihood score is computed  *)
(* with the penalty 1.0 / 0.8 / 0.5 of that level (12 / 9 / 6 for scores   *)
(* 100 and 100; 5 / 4 / 2 for scores 55 and 30); a candidate whose years   *)
(* are below half the required years gets experience_match = FALSE and fit *)
(* "poor".                                                                 *)
(***************************************************************************)
C9_Overlap == Cardinality(resume_data.skills \cap job_data.required_skills)
C9_Total == Cardinality(job_data.required_skills)
C9_GoodCase ==
    /\ C9_Total > 0
    /\ 10 * C9_Overlap >= 7 * C9_Total
    /\ 5 * resume_data.experience.years_experience >= 4 * job_data.requirements.years_experience_required
C9_ModerateCase ==
    /\ ~C9_GoodCase
    /\ C9_Total > 0
    /\ 5 * C9_Overlap >= 2 * C9_Total
    /\ 2 * resume_data.experience.years_experience >= job_data.requirements.years_experience_required
C9_ExpectedLevel ==
    IF C9_GoodCase THEN "good" ELSE IF C9_ModerateCase THEN "moderate" ELSE "poor"
C9_ExpectedScore(level) ==
    IF ats_score = 100 /\ recruiter_score = 100
    THEN (IF level = "good" THEN 12 ELSE IF level = "moderate" THEN 9 ELSE 6)
    ELSE IF ats_score = 55 /\ recruiter_score = 30
    THEN (IF level = "good" THEN 5 ELSE IF level = "moderate" THEN 4 ELSE 2)
    ELSE likelihood_result.score

C9_DomainFitLevels ==
    pc = "done" =>
        /\ likelihood_result.domain_fit.fit_level = C9_ExpectedLevel
        /\ likelihood_result.score = C9_ExpectedScore(C9_ExpectedLevel)
        /\ 2 * resume_data.experience.years_experience < job_data.requirements.years_experience_required =>
               /\ likelihood_result.domain_fit.experience_match = FALSE
               /\ likelihood_result.domain_fit.fit_level = "poor"

C9_Witness ==
    /\ pc = "done"
    /\ resume_data.experience.years_experience = 1
    /\ job_data.requirements.years_experience_required = 5
    /\ C9_Total = 10 /\ C9_Overlap = 7
    /\ ats_score = 100 /\ recruiter_score = 100
    /\ likelihood_result.domain_fit.experience_match = FALSE
    /\ likelihood_result.domain_fit.fit_level = "poor"
    /\ likelihood_result.score = 6

----------------------------------------------------------------------------
(***************************************************************************)
(* Texts.                                                                  *)
(* A text is modelled by the set of vocabulary words it contains, the      *)
(* numbers of its "<n> years exp" phrases in order of appearance, and the  *)
(* number of its other words, which contain no lookup keyword.             *)
(* SubstringsOf[w] lists the lookup keywords (skill table, format,         *)
(* seniority and education keywords) that occur in the word w as Python's  *)
(* `keyword in text` finds them: as substrings, with no word boundary.     *)
(***************************************************************************)
skills_keywords ==
    <<[category |-> "programming",
       skills |-> <<"python", "javascript", "java", "c++", "c#", "go", "rust", "php", "ruby", "swift", "kotlin">>],
      [category |-> "web",
       skills |-> <<"html", "css", "react", "vue", "angular", "node.js", "express", "django", "flask", "spring">>],
      [category |-> "database",
       skills |-> <<"sql", "mysql", "postgresql", "mongodb", "redis", "elasticsearch", "oracle">>],
      [category |-> "cloud",
       skills |-> <<"aws", "azure", "gcp", "docker", "kubernetes", "terraform", "jenkins">>],
      [category |-> "data",
       skills |-> <<"pandas", "numpy", "scikit-learn", "tensorflow", "pytorch", "machine learning", "ai">>],
      [category |-> "mobile",
       skills |-> <<"ios", "android", "react native", "flutter", "xamarin">>],
      [category |-> "tools",
       skills |-> <<"git", "github", "gitlab", "jira", "confluence", "slack", "figma", "photoshop">>]>>

title ==
    ("python" :> "Python") @@
    ("javascript" :> "Javascript") @@
    ("java" :> "Java") @@
    ("c++" :> "C++") @@
    ("c#" :> "C#") @@
    ("go" :> "Go") @@
    ("rust" :> "Rust") @@
    ("php" :> "Php") @@
    ("ruby" :> "Ruby") @@
    ("swift" :> "Swift") @@
    ("kotlin" :> "Kotlin") @@
    ("html" :> "Html") @@
    ("css" :> "Css") @@
    ("react" :> "React") @@
    ("vue" :> "Vue") @@
    ("angular" :> "Angular") @@
    ("node.js" :> "Node.Js") @@
    ("express" :> "Express") @@
    ("django" :> "Django") @@
    ("flask" :> "Flask") @@
    ("spring" :> "Spring") @@
    ("sql" :> "Sql") @@
    ("mysql" :> "Mysql") @@
    ("postgresql" :> "Postgresql") @@
    ("mongodb" :> "Mongodb") @@
    ("redis" :> "Redis") @@
    ("elasticsearch" :> "Elasticsearch") @@
    ("oracle" :> "Oracle") @@
    ("aws" :> "Aws") @@
    ("azure" :> "Azure") @@
    ("gcp" :> "Gcp") @@
    ("docker" :> "Docker") @@
    ("kubernetes" :> "Kubernetes") @@
    ("terraform" :> "Terraform") @@
    ("jenkins" :> "Jenkins") @@
    ("pandas" :> "Pandas") @@
    ("numpy" :> "Numpy") @@
    ("scikit-learn" :> "Scikit-Learn") @@
    ("tensorflow" :> "Tensorflow") @@
    ("pytorch" :> "Pytorch") @@
    ("machine learning" :> "Machine Learning") @@
    ("ai" :> "Ai") @@
    ("ios" :> "Ios") @@
    ("android" :> "Android") @@
    ("react native" :> "React Native") @@
    ("flutter" :> "Flutter") @@
    ("xamarin" :> "Xamarin") @@
    ("git" :> "Git") @@
    ("github" :> "Github") @@
    ("gitlab" :> "Gitlab") @@
    ("jira" :> "Jira") @@
    ("confluence" :> "Confluence") @@
    ("slack" :> "Slack") @@
    ("figma" :> "Figma") @@
    ("photoshop" :> "Photoshop")

SubstringsOf ==
    ("python" :> {"python"}) @@
    ("javascript" :> {"javascript", "java"}) @@
    ("sql" :> {"sql"}) @@
    ("react" :> {"react"}) @@
    ("algorithm" :> {"go"}) @@
    ("expressed" :> {"express"}) @@
    ("email" :> {"ai", "email"}) @@
    ("summary" :> {"summary"}) @@
    ("experience" :> {"experience"}) @@
    ("education" :> {"education"}) @@
    ("|" :> {"|"}) @@
    ("figure" :> {"figure"}) @@
    ("kubernetes" :> {"kubernetes"}) @@
    ("postgresql" :> {"postgresql", "sql"})

Range(seq) == {seq[i] : i \in DOMAIN seq}

\* Every keyword of the lookup table, over all categories.
AllSkillKeywords == UNION {Range(skills_keywords[i].skills) : i \in DOMAIN skills_keywords}

Text(words, years, filler) == [words |-> words, years |-> years, filler |-> filler]

\* The text extracted from an empty or unreadable file, and an empty description.
EmptyText == Text({}, <<>>, 0)

keywords_in_mutant_whole_word(text) == {w \in text.words : w \in SubstringsOf[w]}

\* The lookup keywords k for which `k in text.lower()` holds.
keywords_in(text) == UNION {SubstringsOf[w] : w \in text.words}

\* keyword in text.lower()
text_contains(text, keyword) == keyword \in keywords_in(text)

\* any(keyword in text.lower() for keyword in keywords)
any_in_text(text, keywords) == keywords \cap keywords_in(text) # {}

\* len(text.split()): a years phrase is three words.
word_count(text) == Cardinality(text.words) + 3 * Len(text.years) + text.filler

(***************************************************************************)
(* ResumeAnalyzer.extract_skills, JobAnalyzer.extract_required_skills.     *)
(* extract_required_skills returns the skills by category; every reader    *)
(* modelled here takes the union over the categories, which is what the    *)
(* operator returns (no keyword is in two categories).                     *)
(***************************************************************************)
extract_skills(text) ==
    {title[skill] : skill \in AllSkillKeywords \cap keywords_in(text)}

extract_required_skills(text) ==
    UNION {{title[skill] : skill \in Range(skills_keywords[i].skills) \cap keywords_in(text)} :
           i \in DOMAIN skills_keywords}

\* re.search of the years pattern on a text whose years phrases read
\* "<n> yrs exp" (no lookup keyword occurs in one): the first match, 0
\* without a match.
years_match(text) == IF text.years = <<>> THEN 0 ELSE Head(text.years)

\* ResumeAnalyzer.extract_experience (job_titles is read by no score).
extract_experience(text) == [years_experience |-> years_match(text)]

\* JobAnalyzer.extract_requirements (the fields the scores read).
extract_requirements(text) == [years_experience_required |-> years_match(text)]

\* ResumeAnalyzer.analyze_format.
analyze_format(text) ==
    [has_contact_info |-> any_in_text(text, {"email", "phone", "linkedin", "@"}),
     has_summary |-> any_in_text(text, {"summary", "objective", "profile"}),
     has_education |-> any_in_text(text, {"education", "university", "college", "degree"}),
     has_experience |-> any_in_text(text, {"experience", "employment", "work history"}),
     has_tables |-> any_in_text(text, {"|", "\t"}),
     has_images |-> any_in_text(text, {"[image]", "figure"}),
     has_headers_footers |-> any_in_text(text, {"page", "header", "footer"}),
     word_count |-> word_count(text)]

(***************************************************************************)
(* Python's division: a / b raises ZeroDivisionError when b = 0.  The      *)
(* quotient is kept as the floor of scale * a / b.                         *)
(***************************************************************************)
Returned(v) == [raised |-> FALSE, value |-> v]
ZeroDivisionError == [raised |-> TRUE, value |-> 0]

scaled_ratio(scale, a, b) ==
    IF b = 0 THEN ZeroDivisionError ELSE Returned((scale * a) \div b)

(***************************************************************************)
(* ScoringEngine.calculate_ats_score (the driver-based formulation).       *)
(***************************************************************************)
\* The five checks capped at the 30 points the comment in the code announces.
format_score_mutant_capped(format) ==
    Min(30, (IF format.has_contact_info THEN 10 ELSE 0)
            + (IF format.has_summary THEN 10 ELSE 0)
            + (IF format.has_experience THEN 10 ELSE 0)
            + (IF ~format.has_tables THEN 5 ELSE 0)
            + (IF ~format.has_images THEN 5 ELSE 0))

format_score(format) ==
      (IF format.has_contact_info THEN 10 ELSE 0)
    + (IF format.has_summary THEN 10 ELSE 0)
    + (IF format.has_experience THEN 10 ELSE 0)
    + (IF ~format.has_tables THEN 5 ELSE 0)
    + (IF ~format.has_images THEN 5 ELSE 0)

\* keyword_score = min(40, int(keyword_match_ratio * 40)), without the
\* test of job_skills: the division is made for every job.
keyword_score_mutant_unguarded(resume_skills, job_skills) ==
    LET ratio40 == scaled_ratio(40, Cardinality(resume_skills \cap job_skills),
                                Cardinality(job_skills))
    IN  [raised |-> ratio40.raised, value |-> Min(40, ratio40.value)]

keyword_score(resume_skills, job_skills) ==
    IF job_skills # {}
    THEN LET ratio40 == scaled_ratio(40, Cardinality(resume_skills \cap job_skills),
                                     Cardinality(job_skills))
         IN  [raised |-> ratio40.raised, value |-> Min(40, ratio40.value)]
    ELSE Returned(20)

exp_score(resume_years, job_years) ==
    IF job_years = 0 THEN 25
    ELSE IF resume_years >= job_years THEN 30
    ELSE IF 10 * resume_years >= 7 * job_years THEN 20
    ELSE 10

Driver(component, score) == [component |-> component, score |-> score]

calculate_ats_score_mutant_uncapped(rd, jd) ==
    LET fs == format_score(rd.format)
        ks == keyword_score(rd.skills, jd.required_skills)
        es == exp_score(rd.experience.years_experience,
                        jd.requirements.years_experience_required)
    IN  [raised |-> ks.raised,
         score |-> fs + ks.value + es,
         drivers |-> <<Driver("Format Compliance", fs),
                       Driver("Keyword Matching", ks.value),
                       Driver("Experience Relevance", es)>>]

calculate_ats_score(rd, jd) ==
    LET fs == format_score(rd.format)
        ks == keyword_score(rd.skills, jd.required_skills)
        es == exp_score(rd.experience.years_experience,
                        jd.requirements.years_experience_required)
    IN  [raised |-> ks.raised,
         score |-> Min(fs + ks.value + es, max_score),
         drivers |-> <<Driver("Format Compliance", fs),
                       Driver("Keyword Matching", ks.value),
                       Driver("Experience Relevance", es)>>]

(***************************************************************************)
(* ScoringEngine.calculate_recruiter_score (the driver-based formulation). *)
(***************************************************************************)
content_score(words) ==
    IF words >= 400 THEN 40
    ELSE IF words >= 300 THEN 30
    ELSE IF words >= 200 THEN 20
    ELSE 10

skills_score(resume_skills, job_skills) ==
    IF job_skills # {}
    THEN scaled_ratio(35, Cardinality(resume_skills \cap job_skills),
                      Cardinality(job_skills))
    ELSE Returned(20)

presentation_score(format) ==
      (IF format.has_summary THEN 10 ELSE 0)
    + (IF format.has_education THEN 10 ELSE 0)
    + (IF format.word_count >= 300 THEN 5 ELSE 0)

calculate_recruiter_score(rd, jd) ==
    LET cs == content_score(rd.format.word_count)
        ss == skills_score(rd.skills, jd.required_skills)
        ps == presentation_score(rd.format)
    IN  [raised |-> ss.raised,
         score |-> Min(cs + ss.value + ps, max_score),
         drivers |-> <<Driver("Content Quality", cs),
                       Driver("Skills Alignment", ss.value),
                       Driver("Professional Presentation", ps)>>]

(***************************************************************************)
(* RecommendationEngine.generate_recommendations of analysis_engine.py:    *)
(* the categories of the recommendations returned, in order.               *)
(***************************************************************************)
SelectIf(cond, x) == IF cond THEN <<x>> ELSE <<>>

generate_recommendations(rd, jd) ==
    LET missing_skills == jd.required_skills \ rd.skills
        resume_years == rd.experience.years_experience
        job_years == jd.requirements.years_experience_required
        recommendations ==
               SelectIf(missing_skills # {}, "Skills Enhancement")
            \o SelectIf(resume_years < job_years /\ job_years > 0, "Experience Enhancement")
            \o SelectIf(rd.format.has_tables, "Format Optimization")
            \o SelectIf(~rd.format.has_summary, "Content Enhancement")
            \o SelectIf(rd.format.word_count < 300, "Content Expansion")
    IN  SubSeq(recommendations, 1, Min(5, Len(recommendations)))

(***************************************************************************)
(* AnalysisEngine.analyze, gap analysis (lines 460-469).  The lists are    *)
(* built from sets and are kept as sets.                                   *)
(***************************************************************************)
gap_analysis_mutant_present(resume_skills_set, job_skills_set) ==
    [missing_skills |-> job_skills_set \ resume_skills_set,
     present_skills |-> resume_skills_set]

gap_analysis(resume_skills_set, job_skills_set) ==
    [missing_skills |-> job_skills_set \ resume_skills_set,
     present_skills |-> resume_skills_set \cap job_skills_set]

(***************************************************************************)
(* AnalysisEngine._generate_job_recommendations: the branch taken, and for *)
(* the fallback (_get_generic_recommendations, _analyze_resume_skills) the *)
(* roles returned with their match scores.                                 *)
(***************************************************************************)
role_categories ==
    <<[title |-> "Frontend Developer",
       skills |-> {"html", "css", "javascript", "react", "vue", "angular", "node.js"}],
      [title |-> "Backend Developer",
       skills |-> {"python", "java", "c++", "c#", "sql", "mysql", "postgresql"}],
      [title |-> "Data Analyst",
       skills |-> {"pandas", "numpy", "sql", "machine learning", "ai", "tensorflow", "pytorch"}],
      [title |-> "DevOps Engineer",
       skills |-> {"aws", "docker", "kubernetes", "terraform", "jenkins", "azure", "gcp"}],
      [title |-> "Mobile Developer",
       skills |-> {"ios", "android", "react native", "flutter", "swift", "kotlin"}]>>

\* skill.lower() of a reported skill name.
lower(name) == CHOOSE k \in AllSkillKeywords : title[k] = name

analyze_resume_skills(resume_skills_lower) ==
    [i \in DOMAIN role_categories |->
        [title |-> role_categories[i].title,
         skill_count |-> Cardinality(resume_skills_lower \cap role_categories[i].skills)]]

\* list.sort(key = match_score, reverse = True): stable, so equal scores keep
\* their order.
RECURSIVE sort_by_match_score(_)
sort_by_match_score(seq) ==
    IF seq = <<>> THEN <<>>
    ELSE LET best == CHOOSE i \in DOMAIN seq :
                         /\ \A j \in DOMAIN seq : seq[j].match_score <= seq[i].match_score
                         /\ \A j \in 1..(i - 1) : seq[j].match_score < seq[i].match_score
         IN  <<seq[best]>> \o
             sort_by_match_score([j \in 1..(Len(seq) - 1) |->
                                     IF j < best THEN seq[j] ELSE seq[j + 1]])

RECURSIVE generic_roles(_, _)
generic_roles(skill_analysis, i) ==
    IF i > Len(skill_analysis) THEN <<>>
    ELSE SelectIf(skill_analysis[i].skill_count >= 2,
                  [title |-> skill_analysis[i].title,
                   match_score |-> Min(85, skill_analysis[i].skill_count * 15 + 40)])
         \o generic_roles(skill_analysis, i + 1)

get_generic_recommendations(resume_skills) ==
    IF resume_skills = {} THEN <<>>
    ELSE LET skill_analysis == analyze_resume_skills({lower(x) : x \in resume_skills})
             recommendations == sort_by_match_score(generic_roles(skill_analysis, 1))
         IN  SubSeq(recommendations, 1, Min(3, Len(recommendations)))

generate_job_recommendations(rd, jd) ==
    IF jd.required_skills # {}
    THEN [branch |-> "similar", roles |-> <<>>]
    ELSE [branch |-> "generic", roles |-> get_generic_recommendations(rd.skills)]

(***************************************************************************)
(* AnalysisEngine.analyze, from the extracted resume text and the job      *)
(* text to the result dictionary.  An exception raised by a step leaves    *)
(* the call without a result.                                              *)
(***************************************************************************)
build_resume_data(text) ==
    [skills |-> extract_skills(text),
     experience |-> extract_experience(text),
     format |-> analyze_format(text)]

build_job_data(text) ==
    [required_skills |-> extract_required_skills(text),
     requirements |-> extract_requirements(text)]

analyze_data(rd, jd) ==
    LET ats_result == calculate_ats_score(rd, jd)
        recruiter_result == calculate_recruiter_score(rd, jd)
        likelihood == calculate_likelihood_score(ats_result.score, recruiter_result.score, rd, jd)
    IN  IF ats_result.raised \/ recruiter_result.raised
        THEN [raised |-> TRUE]
        ELSE [raised |-> FALSE,
              ats_score |-> ats_result.score,
              recruiter_score |-> recruiter_result.score,
              likelihood_score |-> likelihood.score,
              domain_fit |-> likelihood.domain_fit,
              score_drivers |-> ats_result.drivers \o recruiter_result.drivers,
              recommendations |-> generate_recommendations(rd, jd),
              gap_analysis |-> gap_analysis(rd.skills, jd.required_skills),
              job_recommendations |-> generate_job_recommendations(rd, jd),
              debug_info |-> [resume_skills_found |-> rd.skills,
                              job_skills_found |-> jd.required_skills]]

analyze(rtext, jtext) == analyze_data(build_resume_data(rtext), build_job_data(jtext))

(***************************************************************************)
(* Specification SpecAnalyze: calls of AnalysisEngine.analyze on the texts *)
(* over the two vocabularies.                                              *)
(***************************************************************************)
ResumeVocabulary ==
    {"python", "javascript", "sql", "email", "summary", "experience", "education", "|", "figure"}
JobVocabulary == {"python", "javascript", "sql", "algorithm", "expressed"}

YearsPhrases == {<<>>, <<1>>, <<MaxYears - 1>>}

ResumeTexts ==
    {Text(w, y, f) : w \in SUBSET ResumeVocabulary, y \in YearsPhrases, f \in {0, 300}}
JobTexts == {Text(w, y, 0) : w \in SUBSET JobVocabulary, y \in YearsPhrases}

LikelihoodIdle ==
    /\ ats_score = None /\ recruiter_score = None
    /\ resume_data = None /\ job_data = None /\ likelihood_result = None

InitAnalyze ==
    /\ pc = "start"
    /\ resume_text \in ResumeTexts
    /\ job_text \in JobTexts
    /\ analysis = None
    /\ LikelihoodIdle
    /\ FormattingIdle
    /\ KeywordIdle
    /\ ServiceIdle
    /\ EndpointIdle

Analyze ==
    /\ pc = "start"
    /\ resume_data' = build_resume_data(resume_text)
    /\ job_data' = build_job_data(job_text)
    /\ analysis' = analyze_data(resume_data', job_data')
    /\ pc' = IF analysis'.raised THEN "raised" ELSE "done"
    /\ UNCHANGED <<resume_text, job_text, ats_score, recruiter_score, likelihood_result,
                   formatting_vars, keyword_vars, service_vars, endpoint_vars>>

NextAnalyze == Analyze

SpecAnalyze == InitAnalyze /\ [][NextAnalyze]_vars

(***************************************************************************)
(* C7: for an empty resume text and an empty job text analyze returns      *)
(* without raising, with numeric ats_score, recruiter_score and            *)
(* likelihood_score (55, 30 and 2), and the Keyword Matching driver takes  *)
(* its default of 20 instead of dividing by the number of job skills.      *)
(***************************************************************************)
C7_EmptyInputs == resume_text = EmptyText /\ job_text = EmptyText

C7_EmptyAnalysis ==
    (pc # "start" /\ C7_EmptyInputs) =>
        /\ pc = "done"
        /\ ~analysis.raised
        /\ analysis.ats_score = 55
        /\ analysis.recruiter_score = 30
        /\ analysis.likelihood_score = 2
        /\ analysis.score_drivers[2] = Driver("Keyword Matching", 20)

C7_Witness ==
    /\ pc = "done"
    /\ C7_EmptyInputs
    /\ analysis.debug_info.job_skills_found = {}
    /\ analysis.ats_score = 55

(***************************************************************************)
(* C8: in the gap analysis returned by analyze, missing_skills and         *)
(* present_skills are disjoint and together are the job's required skills; *)
(* when every required skill is among the resume's skills, missing_skills  *)
(* is empty and present_skills is the job's required skills.               *)
(***************************************************************************)
C8_GapAnalysis ==
    pc = "done" =>
        LET gap == analysis.gap_analysis
            job_skills == analysis.debug_info.job_skills_found
            resume_skills == analysis.debug_info.resume_skills_found
        IN  /\ gap.missing_skills \cap gap.present_skills = {}
            /\ gap.missing_skills \cup gap.present_skills = job_skills
            /\ job_skills \subseteq resume_skills =>
                   gap.missing_skills = {} /\ gap.present_skills = job_skills

C8_Witness ==
    /\ pc = "done"
    /\ analysis.debug_info.resume_skills_found = {"Python", "Javascript", "Java", "Sql"}
    /\ analysis.debug_info.job_skills_found = {"Python", "Javascript", "Java"}
    /\ analysis.gap_analysis.missing_skills = {}
    /\ analysis.gap_analysis.present_skills = {"Python", "Javascript", "Java"}

----------------------------------------------------------------------------
(***************************************************************************)
(* services/formatting_checker.py: FormattingChecker.                      *)
(*                                                                         *)
(* A ResumeData profile is modelled by                                     *)
(*   raw_text: the set of vocabulary words in it (markup and section       *)
(*     keywords), its word count, whether a section separator occurs,      *)
(*     the number of runs of formatting characters, and whether the first  *)
(*     "education" precedes the first "experience";                        *)
(*   sections: the names of the section map;                               *)
(*   experience, education: the entries with their date strings;           *)
(*   contact_info: email and phone.                                        *)
(***************************************************************************)
ats_headers ==
    {"contact", "contact information", "personal information",
     "summary", "profile", "objective", "about",
     "experience", "work experience", "employment", "professional experience",
     "education", "academic background", "qualifications",
     "skills", "technical skills", "competencies", "expertise",
     "certifications", "certificates", "credentials",
     "projects", "portfolio",
     "awards", "honors", "achievements",
     "publications", "publications and presentations",
     "languages", "language skills"}

\* problematic_elements, in the order of the dictionary.
problematic_elements ==
    <<"tables", "columns", "text_boxes", "headers_footers", "images", "charts", "shapes",
      "special_chars", "complex_formatting">>

\* For each word of the vocabulary, the element types whose pattern
\* re.search finds in it, and the section keywords of _has_section it contains.
MatchesOf ==
    ("<table>" :> {"tables"}) @@
    ("column" :> {"columns"}) @@
    ("textbox" :> {"text_boxes"}) @@
    ("photo" :> {"images"}) @@
    ("contact" :> {"contact"}) @@
    ("experience" :> {"experience"}) @@
    ("education" :> {"education"})

FormatVocabulary == DOMAIN MatchesOf

\* The index in date_patterns of the first pattern that re.match finds at the
\* start of the date string; 0 when none matches.
date_pattern_of ==
    ("01/2020" :> 1) @@ ("2020" :> 2) @@ ("01-2020" :> 3) @@ ("Jan 2020" :> 5) @@
    ("Present" :> 0)

\* re.match of the email pattern of _check_contact_formatting.
valid_email(email) == email = "jane@example.com"

CRITICAL == "critical"
MAJOR == "major"
NICE_TO_HAVE == "nice_to_have"

FormattingIssue(issue_type, severity) == [issue_type |-> issue_type, severity |-> severity]

found_in(raw_text) == UNION {MatchesOf[w] : w \in raw_text.words}

RECURSIVE check_problematic_elements_from(_, _)
check_problematic_elements_from(raw_text, i) ==
    IF i > Len(problematic_elements) THEN <<>>
    ELSE LET element_type == problematic_elements[i]
         IN  SelectIf(element_type \in found_in(raw_text),
                      FormattingIssue(element_type,
                          IF element_type \in {"tables", "columns", "text_boxes"}
                          THEN CRITICAL ELSE MAJOR))
             \o check_problematic_elements_from(raw_text, i + 1)

\* The loop without its first element type (tables).
check_problematic_elements_mutant_skip_first(raw_text) ==
    check_problematic_elements_from(raw_text, 2)

check_problematic_elements(raw_text) == check_problematic_elements_from(raw_text, 1)

section_keywords ==
    [contact |-> {"contact", "personal", "information"},
     experience |-> {"experience", "work", "employment"},
     education |-> {"education", "academic", "qualifications"}]

\* A section without keywords is looked up among the parsed sections.
has_section_mutant_looked_up(rd, section_name) ==
    IF section_name \notin DOMAIN section_keywords THEN section_name \in rd.sections
    ELSE section_keywords[section_name] \cap found_in(rd.raw_text) # {}

has_section(rd, section_name) ==
    IF section_name \notin DOMAIN section_keywords THEN TRUE
    ELSE section_keywords[section_name] \cap found_in(rd.raw_text) # {}

check_section_order(rd) ==
    SelectIf(/\ "experience" \in found_in(rd.raw_text)
             /\ "education" \in found_in(rd.raw_text)
             /\ rd.raw_text.education_first,
             FormattingIssue("section_order", NICE_TO_HAVE))

check_section_structure(rd) ==
    LET missing_sections ==
            {sec \in {"contact", "experience", "education"} : ~has_section(rd, sec)}
    IN  SelectIf(missing_sections # {}, FormattingIssue("missing_sections", CRITICAL))
        \o check_section_order(rd)

check_headers(rd) ==
    LET non_standard_headers == {name \in rd.sections : name \notin ats_headers}
    IN  SelectIf(non_standard_headers # {}, FormattingIssue("non_standard_headers", MAJOR))
        \o SelectIf(~rd.raw_text.has_separators, FormattingIssue("missing_separators", MAJOR))

\* The dates that are set (not None), and the patterns they match.
dates_set(dates) == {d \in dates : d # None}
formats_of(dates) == {date_pattern_of[d] : d \in dates_set(dates)} \ {0}

all_dates(rd) ==
    UNION {{rd.experience[i].start_date, rd.experience[i].end_date} : i \in DOMAIN rd.experience}
    \cup {rd.education[i].graduation_date : i \in DOMAIN rd.education}

check_date_formatting(rd) ==
    SelectIf(Cardinality(formats_of(all_dates(rd))) > 2,
             FormattingIssue("inconsistent_date_format", MAJOR))

check_contact_formatting(rd) ==
    LET contact == rd.contact_info
    IN  SelectIf(contact.email = None \/ contact.phone = None,
                 FormattingIssue("missing_contact_info", CRITICAL))
        \o SelectIf(contact.email # None /\ ~valid_email(contact.email),
                    FormattingIssue("invalid_email_format", CRITICAL))

length_issue_mutant_inclusive(words) ==
    IF words <= 200 THEN <<FormattingIssue("too_short", MAJOR)>>
    ELSE IF words >= 1000 THEN <<FormattingIssue("too_long", MAJOR)>>
    ELSE <<>>

length_issue(words) ==
    IF words < 200 THEN <<FormattingIssue("too_short", MAJOR)>>
    ELSE IF words > 1000 THEN <<FormattingIssue("too_long", MAJOR)>>
    ELSE <<>>

check_overall_structure(rd) ==
    length_issue(rd.raw_text.word_count)
    \o SelectIf(rd.raw_text.formatting_runs > 20, FormattingIssue("excessive_formatting", MAJOR))

has_proper_headers(rd) == Cardinality({name \in rd.sections : name \in ats_headers}) >= 3

has_consistent_formatting(rd) ==
    Cardinality(formats_of({rd.experience[i].start_date : i \in DOMAIN rd.experience})) <= 1

severity_penalty(severity) ==
    IF severity = CRITICAL THEN 20 ELSE IF severity = MAJOR THEN 10 ELSE 5

RECURSIVE total_penalty(_)
total_penalty(issues) ==
    IF issues = <<>> THEN 0
    ELSE severity_penalty(Head(issues).severity) + total_penalty(Tail(issues))

calculate_ats_compatibility_score_mutant_no_floor(issues) ==
    100 - total_penalty(issues)

calculate_ats_compatibility_score(issues) ==
    IF issues = <<>> THEN 100 ELSE Max(0, 100 - total_penalty(issues))

structure_points(rd) ==
      25 * Cardinality({sec \in {"contact", "experience", "education"} : has_section(rd, sec)})
    + 10 * Cardinality({sec \in {"skills", "summary"} : has_section(rd, sec)})
    + (IF has_proper_headers(rd) THEN 15 ELSE 0)
    + (IF has_consistent_formatting(rd) THEN 15 ELSE 0)

calculate_structure_score(rd) == Min(100, structure_points(rd))

check_issues(rd) ==
    check_problematic_elements(rd.raw_text)
    \o check_section_structure(rd)
    \o check_headers(rd)
    \o check_date_formatting(rd)
    \o check_contact_formatting(rd)
    \o check_overall_structure(rd)

check(rd) ==
    LET issues == check_issues(rd)
    IN  [ats_compatibility_score |-> calculate_ats_compatibility_score(issues),
         issues |-> issues,
         structure_score |-> calculate_structure_score(rd),
         has_proper_headers |-> has_proper_headers(rd),
         has_consistent_formatting |-> has_consistent_formatting(rd)]

(***************************************************************************)
(* Specification SpecFormatting: calls of FormattingChecker.check.         *)
(***************************************************************************)
RawText(words, count, separators, runs, education_first) ==
    [words |-> words, word_count |-> count, has_separators |-> separators,
     formatting_runs |-> runs, education_first |-> education_first]

WordCounts == {150, 199, 200, 1000, 1001, MaxWords}

\* Separators and runs of formatting characters: a plain layout, one without
\* separators, one with 21 runs of formatting characters.
Layouts == {<<TRUE, 0>>, <<FALSE, 0>>, <<TRUE, 21>>}

RawTexts ==
    {RawText(w, n, l[1], l[2], e) :
        w \in SUBSET FormatVocabulary, n \in WordCounts, l \in Layouts, e \in BOOLEAN}

SectionMaps ==
    {{}, {"experience", "education", "skills"},
     {"experience", "education", "skills", "hobbies"}}

ExperienceEntry(start_date, end_date) == [start_date |-> start_date, end_date |-> end_date]

\* Work histories with their education: no dates; one format; two formats
\* of start date and a third in the education.
Histories ==
    {[experience |-> <<>>, education |-> <<>>],
     [experience |-> <<ExperienceEntry("01/2020", "Present")>>,
      education |-> <<[graduation_date |-> None]>>],
     [experience |-> <<ExperienceEntry("01/2020", "01-2020"), ExperienceEntry("2020", None)>>,
      education |-> <<[graduation_date |-> "Jan 2020"]>>]}

Contacts ==
    {[email |-> None, phone |-> None],
     [email |-> "jane@example.com", phone |-> "555-123-4567"],
     [email |-> "jane@example", phone |-> "555-123-4567"],
     [email |-> "jane@example.com", phone |-> None]}

ResumeProfiles ==
    {[raw_text |-> t, sections |-> m, experience |-> h.experience,
      education |-> h.education, contact_info |-> c] :
        t \in {x \in RawTexts :
                  x.education_first => {"experience", "education"} \subseteq x.words},
        m \in SectionMaps, h \in Histories, c \in Contacts}

InitFormatting ==
    /\ pc = "start"
    /\ resume \in ResumeProfiles
    /\ formatting = None
    /\ LikelihoodIdle
    /\ AnalyzeIdle
    /\ KeywordIdle
    /\ ServiceIdle
    /\ EndpointIdle

Check ==
    /\ pc = "start"
    /\ formatting' = check(resume)
    /\ pc' = "done"
    /\ UNCHANGED <<resume, likelihood_vars, analyze_vars, keyword_vars, service_vars, endpoint_vars>>

NextFormatting == Check

SpecFormatting == InitFormatting /\ [][NextFormatting]_vars

(***************************************************************************)
(* C5: for every resume profile, check returns an ats_compatibility_score  *)
(* and a structure_score that are both in 0..100.                          *)
(***************************************************************************)
C5_ScoresInRange ==
    pc = "done" =>
        /\ formatting.ats_compatibility_score \in 0..100
        /\ formatting.structure_score \in 0..100

\* The floor and the cap both act: issues worth more than 100 points, and
\* structure points above 100.
C5_Witness ==
    /\ pc = "done"
    /\ total_penalty(formatting.issues) > 100
    /\ formatting.ats_compatibility_score = 0
    /\ structure_points(resume) > 100
    /\ formatting.structure_score = 100

(***************************************************************************)
(* C6.  The resume before the table markup was added: the same profile     *)
(* without the word "<table>", which was added either as a word of its own *)
(* (one word more) or joined to an existing word (same word count).        *)
(***************************************************************************)
WithoutTable(rd, added_words) ==
    [rd EXCEPT !.raw_text.words = @ \ {"<table>"},
               !.raw_text.word_count = @ - added_words]

\* C6 as claimed: for every resume text without table markup, adding a
\* table-markup string makes check return a strictly lower
\* ats_compatibility_score.
C6_TableStrictlyLowers ==
    (pc = "done" /\ "<table>" \in resume.raw_text.words) =>
        \A added_words \in {0, 1} :
            formatting.ats_compatibility_score
                < check(WithoutTable(resume, added_words)).ats_compatibility_score

\* C6 as amended: the score with the table markup is strictly lower whenever
\* the score without it is above 0, and stays 0 when it is 0 already.
C6_TableLowersAboveFloor ==
    (pc = "done" /\ "<table>" \in resume.raw_text.words) =>
        \A added_words \in {0, 1} :
            LET before == check(WithoutTable(resume, added_words)).ats_compatibility_score
            IN  IF before > 0
                THEN formatting.ats_compatibility_score < before
                ELSE formatting.ats_compatibility_score = 0

\* Table markup added to a 199-word resume as a 200th word: the too_short
\* issue goes and the tables issue comes.
C6_Witness ==
    /\ pc = "done"
    /\ "<table>" \in resume.raw_text.words
    /\ resume.raw_text.word_count = 200
    /\ check(WithoutTable(resume, 1)).ats_compatibility_score = 50
    /\ formatting.ats_compatibility_score = 40

(***************************************************************************)
(* C10: _check_overall_structure raises a too_short issue of severity      *)
(* major exactly when the word count is below 200, a too_long issue of     *)
(* severity major exactly when it is above 1000, and never both.           *)
(***************************************************************************)
C10_HasIssue(issue_type) ==
    \E i \in DOMAIN formatting.issues : formatting.issues[i].issue_type = issue_type

C10_LengthIssues ==
    pc = "done" =>
        /\ C10_HasIssue("too_short") <=> resume.raw_text.word_count < 200
        /\ C10_HasIssue("too_long") <=> resume.raw_text.word_count > 1000
        /\ ~(C10_HasIssue("too_short") /\ C10_HasIssue("too_long"))
        /\ \A i \in DOMAIN formatting.issues :
               formatting.issues[i].issue_type \in {"too_short", "too_long"} =>
                   /\ formatting.issues[i].severity = MAJOR
                   /\ \A j \in DOMAIN formatting.issues :
                          formatting.issues[j].issue_type = formatting.issues[i].issue_type
                              => j = i

C10_Witness ==
    /\ pc = "done"
    /\ resume.raw_text.word_count = 150
    /\ FormattingIssue("too_short", MAJOR) \in Range(formatting.issues)
    /\ ~C10_HasIssue("too_long")

----------------------------------------------------------------------------
(***************************************************************************)
(* services/keyword_analyzer.py: KeywordAnalyzer.                          *)
(*                                                                         *)
(* A text is the sequence of its whitespace-separated words.  Keyword      *)
(* weights and importance scores are held in fortieths (the weight 6.0 is  *)
(* 240) and keyword strengths in tenths; on the jobs and resumes drawn the *)
(* doubles of the code are these values exactly.  The coverage score and   *)
(* the keyword densities are held as the exact ratio whose double          *)
(* approximation the code computes: Percent(part, whole) is the            *)
(* number part / whole * 100.                                              *)
(***************************************************************************)
MaxSummary == 2

\* self.synonyms
synonyms ==
    ("leadership" :> <<"lead", "led", "leading", "manage", "managed",
        "managing", "direct", "directed">>) @@
    ("management" :> <<"manage", "managed", "managing", "lead", "led",
        "leading", "oversee", "oversaw">>) @@
    ("development" :> <<"develop", "developed", "developing", "build", "built",
        "building", "create", "created">>) @@
    ("implementation" :> <<"implement", "implemented", "implementing",
        "deploy", "deployed", "deploying">>) @@
    ("analysis" :> <<"analyze", "analyzed", "analyzing", "assess", "assessed",
        "assessing", "evaluate", "evaluated">>) @@
    ("strategy" :> <<"strategic", "strategically", "strategize", "strategized",
        "plan", "planned", "planning">>) @@
    ("improvement" :> <<"improve", "improved", "improving", "enhance",
        "enhanced", "enhancing", "optimize", "optimized">>) @@
    ("collaboration" :> <<"collaborate", "collaborated", "collaborating",
        "work with", "worked with", "partner", "partnered">>) @@
    ("communication" :> <<"communicate", "communicated", "communicating",
        "present", "presented", "presenting">>) @@
    ("project" :> <<"initiative", "program", "campaign", "effort",
        "undertaking">>) @@
    ("team" :> <<"group", "staff", "personnel", "crew", "squad">>) @@
    ("business" :> <<"company", "organization", "enterprise", "firm",
        "corporation">>) @@
    ("data" :> <<"information", "metrics", "analytics", "insights",
        "statistics">>) @@
    ("technology" :> <<"tech", "system", "platform", "software",
        "application">>) @@
    ("customer" :> <<"client", "user", "consumer", "buyer", "stakeholder">>) @@
    ("revenue" :> <<"sales", "income", "earnings", "profit", "growth">>) @@
    ("cost" :> <<"expense", "budget", "spending", "investment", "savings">>) @@
    ("performance" :> <<"efficiency", "effectiveness", "productivity",
        "output", "results">>) @@
    ("quality" :> <<"excellence", "standard", "benchmark", "best practice",
        "optimization">>)

\* self.action_verb_strength, in the order of the dictionary
action_verb_strength ==
    <<<<"achieved", 10>>, <<"accomplished", 10>>, <<"delivered", 10>>, <<"exceeded", 10>>,
      <<"surpassed", 10>>, <<"led", 9>>, <<"managed", 9>>, <<"directed", 9>>,
      <<"oversaw", 9>>, <<"spearheaded", 9>>, <<"developed", 8>>, <<"created", 8>>,
      <<"built", 8>>, <<"designed", 8>>, <<"implemented", 8>>, <<"increased", 7>>,
      <<"improved", 7>>, <<"enhanced", 7>>, <<"optimized", 7>>, <<"streamlined", 7>>,
      <<"analyzed", 6>>, <<"evaluated", 6>>, <<"assessed", 6>>, <<"researched", 6>>,
      <<"investigated", 6>>, <<"collaborated", 5>>, <<"coordinated", 5>>, <<"facilitated", 5>>,
      <<"supported", 5>>, <<"assisted", 5>>, <<"helped", 3>>, <<"worked on", 3>>,
      <<"participated", 3>>, <<"involved in", 2>>, <<"responsible for", 2>>>>

\* str.lower on the capitalised words drawn; the other words are lowercase.
LowerCased ==
    ("Python" :> "python") @@ ("Java" :> "java") @@ ("Leadership" :> "leadership") @@
    ("Kubernetes" :> "kubernetes") @@ ("Developer" :> "developer") @@ ("II" :> "ii") @@
    ("Laedership" :> "laedership")

str_lower(word) == IF word \in DOMAIN LowerCased THEN LowerCased[word] ELSE word

\* For each word of a resume text: the job keywords, synonyms and action
\* verbs that occur in it as substrings (each at most once).
OccurrencesIn ==
    ("achieved" :> {"achieved"}) @@
    ("led" :> {"led"}) @@
    ("python" :> {"python"}) @@
    ("javascript" :> {"java", "javascript"}) @@
    ("kubernete" :> {"kubernete"}) @@
    ("java" :> {"java"}) @@
    ("leadership" :> {"leadership", "lead"}) @@
    ("kubernetes" :> {"kubernetes", "kubernete"}) @@
    ("laedership" :> {"laedership"})

\* For each job keyword: the resume words w with
\* SequenceMatcher(None, keyword, w).ratio() > 0.8.
SimilarWords ==
    ("python" :> {"python"}) @@
    ("java" :> {"java"}) @@
    ("leadership" :> {"leadership", "laedership"}) @@
    ("kubernetes" :> {"kubernete", "kubernetes"}) @@
    ("developer" :> {})


\* `needle in text`, for a needle without spaces
contains(text, needle) == \E i \in DOMAIN text : needle \in OccurrencesIn[text[i]]

\* text.count(needle)
count(text, needle) == Cardinality({i \in DOMAIN text : needle \in OccurrencesIn[text[i]]})

\* ResumeData.get_all_text, for a resume without name, experience,
\* education, certifications, projects or awards
get_all_text(rd) ==
    [i \in 1..(Len(rd.summary) + Len(rd.skills)) |->
        IF i <= Len(rd.summary) THEN str_lower(rd.summary[i])
        ELSE str_lower(rd.skills[i - Len(rd.summary)])]

\* A Python dict: the sequence of its items in insertion order.
dict_has(d, key) == \E i \in DOMAIN d : d[i].key = key
dict_get(d, key, default) ==
    IF dict_has(d, key) THEN d[CHOOSE i \in DOMAIN d : d[i].key = key].value ELSE default
dict_set(d, key, value) ==
    IF dict_has(d, key)
    THEN [i \in DOMAIN d |-> IF d[i].key = key THEN [key |-> key, value |-> value] ELSE d[i]]
    ELSE Append(d, [key |-> key, value |-> value])
dict_keys(d) == [i \in DOMAIN d |-> d[i].key]

RECURSIVE sum_values(_)
sum_values(d) == IF d = <<>> THEN 0 ELSE Head(d).value + sum_values(Tail(d))

\* _extract_important_words without the spaCy model: the words of three
\* letters or more that are not stop words.
extract_important_words(text) ==
    SelectSeq([i \in DOMAIN text |-> str_lower(text[i])],
              LAMBDA word : Len(word) >= 3 /\ word \notin
                  {"the", "and", "for", "with", "this", "that", "from", "into"})

\* The loops of _extract_job_keywords. importance * 1.5 is factor 60,
\* importance is factor 40.
RECURSIVE add_skills(_, _, _)
add_skills(keywords, skills, factor) ==
    IF skills = <<>> THEN keywords
    ELSE add_skills(dict_set(keywords, str_lower(Head(skills).name),
                             Head(skills).importance * factor),
                    Tail(skills), factor)

RECURSIVE add_key_phrases(_, _)
add_key_phrases(keywords, phrases) ==
    IF phrases = <<>> THEN keywords
    ELSE add_key_phrases(dict_set(keywords, str_lower(Head(phrases)), 240), Tail(phrases))

RECURSIVE add_title_words(_, _)
add_title_words(keywords, words) ==
    IF words = <<>> THEN keywords
    ELSE add_title_words(IF Len(str_lower(Head(words))) > 2
                         THEN dict_set(keywords, str_lower(Head(words)), 320)
                         ELSE keywords,
                         Tail(words))

RECURSIVE add_words(_, _, _)
add_words(keywords, words, weight) ==
    IF words = <<>> THEN keywords
    ELSE add_words(dict_set(keywords, Head(words), dict_get(keywords, Head(words), 0) + weight),
                   Tail(words), weight)

RECURSIVE add_sentences(_, _, _)
add_sentences(keywords, sentences, weight) ==
    IF sentences = <<>> THEN keywords
    ELSE add_sentences(add_words(keywords, extract_important_words(Head(sentences)), weight),
                       Tail(sentences), weight)

extract_job_keywords(jd) ==
    LET required == add_skills(<<>>, jd.required_skills, 60)
        preferred == add_skills(required, jd.preferred_skills, 40)
        phrases == add_key_phrases(preferred, jd.key_phrases)
        titled == add_title_words(phrases, jd.title)
        responsibilities == add_sentences(titled, jd.responsibilities, 80)
    IN  add_sentences(responsibilities, jd.qualifications, 120)

\* _find_synonym_matches: the synonyms of the keyword present in the text,
\* in the order of the synonym list
find_synonym_matches(keyword, text) ==
    IF keyword \notin DOMAIN synonyms THEN <<>>
    ELSE SelectSeq(synonyms[keyword], LAMBDA synonym : contains(text, synonym))

find_partial_match_mutant_none(keyword, text) == None

\* _find_partial_match: the first word of the text close enough to the
\* keyword, None without one
find_partial_match(keyword, text) ==
    LET close == {i \in DOMAIN text :
                     /\ Len(text[i]) > 3 /\ Len(keyword) > 3
                     /\ text[i] \in SimilarWords[keyword]}
    IN  IF close = {} THEN None
        ELSE text[CHOOSE i \in close : \A j \in close : i <= j]

\* _find_keyword_location, for a resume without name, experience or education
find_keyword_location(keyword, rd) ==
    IF rd.summary # <<>> /\ contains([i \in DOMAIN rd.summary |-> str_lower(rd.summary[i])],
                                     str_lower(keyword))
    THEN "summary"
    ELSE IF \E i \in DOMAIN rd.skills :
                str_lower(keyword) \in OccurrencesIn[str_lower(rd.skills[i])]
         THEN "skills"
         ELSE "none"

\* The strength of the first action verb, in dictionary order, that occurs in
\* words[max(0, i - 3) : min(len(words), i + 3)]; 0 without one.  i counts
\* from 1 here.
context_strength(words, i) ==
    LET context == SubSeq(words, Max(1, i - 3), Min(Len(words), i + 2))
        verbs == {v \in DOMAIN action_verb_strength :
                     contains(context, action_verb_strength[v][1])}
    IN  IF verbs = {} THEN 0
        ELSE action_verb_strength[CHOOSE v \in verbs : \A u \in verbs : v <= u][2]

RECURSIVE context_strengths(_, _, _)
context_strengths(keyword, words, i) ==
    IF i > Len(words) THEN 0
    ELSE (IF keyword \in OccurrencesIn[words[i]] THEN context_strength(words, i) ELSE 0)
         + context_strengths(keyword, words, i + 1)

\* _calculate_keyword_strength, in tenths
calculate_keyword_strength(keyword, text) ==
    LET occurrences == count(text, keyword)
        frequency == IF occurrences > 3 THEN 20 ELSE IF occurrences > 1 THEN 10 ELSE 0
    IN  Min(100, 50 + frequency + context_strengths(keyword, text, 1))

KeywordMatch(keyword, match_type, location, importance_score) ==
    [keyword |-> keyword, match_type |-> match_type, frequency_in_jd |-> 1,
     location_in_resume |-> location, importance_score |-> importance_score]



\* `strength >= 7`
strong_threshold(strength) == strength >= 70

classify_mutant_no_else(lists, keyword, importance, text, rd) ==
    LET match == KeywordMatch(keyword, "exact", find_keyword_location(keyword, rd), importance)
    IN  [lists EXCEPT !.strong_keywords = Append(@, match),
                      !.weak_keywords = Append(@, match)]

\* One iteration of the loop of _analyze_keyword_matches: the three lists
\* after the keyword has been classified.
classify(lists, keyword, importance, text, rd) ==
    IF contains(text, keyword)
    THEN LET match == KeywordMatch(keyword, "exact", find_keyword_location(keyword, rd),
                                   importance)
         IN  IF strong_threshold(calculate_keyword_strength(keyword, text))
             THEN [lists EXCEPT !.strong_keywords = Append(@, match)]
             ELSE [lists EXCEPT !.weak_keywords = Append(@, match)]
    ELSE IF keyword \in DOMAIN synonyms
    THEN LET synonym_matches == find_synonym_matches(keyword, text)
         IN  IF synonym_matches # <<>>
             THEN [lists EXCEPT !.strong_keywords =
                      Append(@, KeywordMatch(keyword, "synonym",
                                             find_keyword_location(synonym_matches[1], rd),
                                             (importance * 8) \div 10))]
             ELSE [lists EXCEPT !.missing_keywords = Append(@, keyword)]
    ELSE LET partial_match == find_partial_match(keyword, text)
         IN  IF partial_match # None
             THEN [lists EXCEPT !.weak_keywords =
                      Append(@, KeywordMatch(keyword, "partial",
                                             find_keyword_location(partial_match, rd),
                                             (importance * 6) \div 10))]
             ELSE [lists EXCEPT !.missing_keywords = Append(@, keyword)]

RECURSIVE classify_all(_, _, _, _)
classify_all(lists, job_keywords, text, rd) ==
    IF job_keywords = <<>> THEN lists
    ELSE classify_all(classify(lists, Head(job_keywords).key, Head(job_keywords).value,
                               text, rd),
                      Tail(job_keywords), text, rd)

analyze_keyword_matches(job_keywords, text, rd) ==
    classify_all([missing_keywords |-> <<>>, weak_keywords |-> <<>>,
                  strong_keywords |-> <<>>],
                 job_keywords, text, rd)

RECURSIVE sum_importance(_)
sum_importance(matches) ==
    IF matches = <<>> THEN 0
    ELSE Head(matches).importance_score + sum_importance(Tail(matches))

weak_weight_mutant_full(matches) == sum_importance(matches)

\* sum(match.importance_score * 0.5 for match in weak_keywords)
weak_weight(matches) == sum_importance(matches) \div 2

Percent(part, whole) == [part |-> part, whole |-> whole]

\* p = 100.0, p >= q
IsHundred(p) == p.part = p.whole
AtLeast(p, q) == p.part * q.whole >= q.part * p.whole

calculate_coverage_score_mutant_guarded(job_keywords, strong_keywords, weak_keywords) ==
    Returned(Percent(1, 1))

\* _calculate_coverage_score
calculate_coverage_score(job_keywords, strong_keywords, weak_keywords) ==
    IF job_keywords = <<>> THEN Returned(Percent(1, 1))
    ELSE LET total_weight == sum_values(job_keywords)
             covered_weight == sum_importance(strong_keywords) + weak_weight(weak_keywords)
         IN  IF total_weight = 0 THEN ZeroDivisionError
             ELSE IF covered_weight >= total_weight THEN Returned(Percent(1, 1))
             ELSE Returned(Percent(covered_weight, total_weight))

\* _calculate_keyword_density; the empty dict is <<>>
calculate_keyword_density(job_keywords, text) ==
    IF Len(text) = 0 THEN <<>>
    ELSE [i \in DOMAIN job_keywords |->
             [key |-> job_keywords[i].key,
              value |-> Percent(count(text, job_keywords[i].key), Len(text))]]

\* KeywordAnalyzer.analyze
keyword_analyzer_analyze(rd, jd) ==
    LET job_keywords == extract_job_keywords(jd)
        text == get_all_text(rd)
        lists == analyze_keyword_matches(job_keywords, text, rd)
        coverage_score == calculate_coverage_score(job_keywords, lists.strong_keywords,
                                                   lists.weak_keywords)
    IN  IF coverage_score.raised THEN [raised |-> TRUE]
        ELSE [raised |-> FALSE,
              coverage_score |-> coverage_score.value,
              missing_keywords |-> lists.missing_keywords,
              weak_keywords |-> lists.weak_keywords,
              strong_keywords |-> lists.strong_keywords,
              keyword_density |-> calculate_keyword_density(job_keywords, text)]

(***************************************************************************)
(* Specification SpecKeyword: calls of KeywordAnalyzer.analyze.            *)
(***************************************************************************)
SkillNames == <<"Python", "Java", "Leadership", "Kubernetes">>

JobSkill(name, importance) == [name |-> name, importance |-> importance]

\* A job parser gives a skill an importance of 5 to 10; JobSkill admits 0 to 10.
Importances == {0, 10}

\* The names chosen, in the order of SkillNames.
RECURSIVE skill_list(_, _)
skill_list(i, chosen) ==
    IF i > Len(SkillNames) THEN <<>>
    ELSE (IF i \in chosen THEN <<SkillNames[i]>> ELSE <<>>) \o skill_list(i + 1, chosen)

SkillLists == {skill_list(1, chosen) : chosen \in SUBSET DOMAIN SkillNames}

JobSkillLists ==
    UNION {{[i \in DOMAIN names |-> JobSkill(names[i], importance[i])] :
               importance \in [DOMAIN names -> Importances]} : names \in SkillLists}

\* A job whose only keywords are its required skills, and a job where every
\* other source of keywords adds or overrides one.
JobSources ==
    {[preferred_skills |-> <<>>, key_phrases |-> <<>>, title |-> <<>>,
      responsibilities |-> <<>>, qualifications |-> <<>>],
     [preferred_skills |-> <<JobSkill("Java", 5)>>, key_phrases |-> <<"Leadership">>,
      title |-> <<"Python", "Developer", "II">>,
      responsibilities |-> << <<"with", "Kubernetes">> >>,
      qualifications |-> << <<"Python">> >>]}

Jobs ==
    {[required_skills |-> required, preferred_skills |-> s.preferred_skills,
      key_phrases |-> s.key_phrases, title |-> s.title,
      responsibilities |-> s.responsibilities, qualifications |-> s.qualifications] :
        required \in JobSkillLists, s \in JobSources}

\* The skills of a resume: the names chosen, or one misspelt skill.
ResumeSkillLists == SkillLists \cup {<<"Laedership">>}

SummaryVocabulary == {"achieved", "led", "python", "javascript", "kubernete"}

Summaries == UNION {[1..n -> SummaryVocabulary] : n \in 0..MaxSummary}

KeywordResumes ==
    {[contact_info |-> [name |-> None], summary |-> summary, experience |-> <<>>,
      education |-> <<>>, skills |-> skills] :
        summary \in Summaries, skills \in ResumeSkillLists}

InitKeyword ==
    /\ pc = "start"
    /\ resume \in KeywordResumes
    /\ job \in Jobs
    /\ keyword_analysis = None
    /\ formatting = None
    /\ LikelihoodIdle
    /\ AnalyzeIdle
    /\ ServiceIdle
    /\ EndpointIdle

KeywordAnalyze ==
    /\ pc = "start"
    /\ keyword_analysis' = keyword_analyzer_analyze(resume, job)
    /\ pc' = IF keyword_analysis'.raised THEN "raised" ELSE "done"
    /\ UNCHANGED <<resume, job, formatting, likelihood_vars, analyze_vars, service_vars, endpoint_vars>>

NextKeyword == KeywordAnalyze

SpecKeyword == InitKeyword /\ [][NextKeyword]_vars

(***************************************************************************)
(* C3: for every skill set S, when the resume's skills are exactly S and   *)
(* the job's keywords are exactly its required skills S, the keyword       *)
(* coverage score is 100.                                                  *)
(***************************************************************************)
C3_SelfMatch ==
    /\ resume.skills = [i \in DOMAIN job.required_skills |-> job.required_skills[i].name]
    /\ job.preferred_skills = <<>> /\ job.key_phrases = <<>> /\ job.title = <<>>
    /\ job.responsibilities = <<>> /\ job.qualifications = <<>>

C3_SelfMatchIsPerfect ==
    (pc # "start" /\ C3_SelfMatch) =>
        /\ pc = "done"
        /\ IsHundred(keyword_analysis.coverage_score)

(***************************************************************************)
(* C3 as the code has it: in a self-match every skill of S is an exact     *)
(* match and none is missing, but an exact match is strong only when its   *)
(* keyword strength is at least 7 and a weak match counts half its weight. *)
(* The coverage is 100 exactly when every weak match has importance 0, it  *)
(* is at least 50, and it is 50 when the resume is nothing but the list of *)
(* the skills and no skill occurs inside another entry of the list.  When  *)
(* S is not empty and every skill has importance 0 the call raises         *)
(* ZeroDivisionError.                                                      *)
(***************************************************************************)
C3_PlainList ==
    /\ resume.summary = <<>>
    /\ resume.skills # <<>>
    /\ \A i, j \in DOMAIN resume.skills :
           str_lower(resume.skills[i]) \in OccurrencesIn[str_lower(resume.skills[j])]
               => i = j

C3_SelfMatchByStrength ==
    (pc # "start" /\ C3_SelfMatch) =>
        IF /\ job.required_skills # <<>>
           /\ \A i \in DOMAIN job.required_skills : job.required_skills[i].importance = 0
        THEN pc = "raised"
        ELSE /\ pc = "done"
             /\ keyword_analysis.missing_keywords = <<>>
             /\ \A m \in Range(keyword_analysis.strong_keywords)
                         \cup Range(keyword_analysis.weak_keywords) :
                    m.match_type = "exact"
             /\ AtLeast(keyword_analysis.coverage_score, Percent(1, 2))
             /\ IsHundred(keyword_analysis.coverage_score) <=>
                    \A m \in Range(keyword_analysis.weak_keywords) : m.importance_score = 0
             /\ C3_PlainList =>
                    /\ keyword_analysis.strong_keywords = <<>>
                    /\ AtLeast(Percent(1, 2), keyword_analysis.coverage_score)

\* Python is strong (it occurs twice, next to "achieved"), Java is weak (it
\* occurs once): the coverage is 75.
C3_Witness ==
    /\ pc = "done"
    /\ C3_SelfMatch
    /\ resume.summary = <<"achieved", "python">>
    /\ job.required_skills = <<JobSkill("Python", 10), JobSkill("Java", 10)>>
    /\ Len(keyword_analysis.strong_keywords) = 1
    /\ Len(keyword_analysis.weak_keywords) = 1
    /\ keyword_analysis.coverage_score = Percent(900, 1200)

(***************************************************************************)
(* C4: for every job and every resume, _analyze_keyword_matches puts each  *)
(* job keyword into exactly one of strong_keywords, weak_keywords and      *)
(* missing_keywords: no keyword is in two of the lists, none is twice in   *)
(* a list, and none is left out.                                           *)
(***************************************************************************)
\* The three lists of the call: those returned, and on a call that raises
\* those handed to _calculate_coverage_score.
C4_Outputs ==
    IF pc = "done" THEN keyword_analysis
    ELSE analyze_keyword_matches(extract_job_keywords(job), get_all_text(resume), resume)

C4_Names(matches) == [i \in DOMAIN matches |-> matches[i].keyword]

C4_NoRepeat(seq) == \A i, j \in DOMAIN seq : seq[i] = seq[j] => i = j

C4_ExactlyOneOutput ==
    pc # "start" =>
        LET outputs == C4_Outputs
            strong == C4_Names(outputs.strong_keywords)
            weak == C4_Names(outputs.weak_keywords)
            missing == outputs.missing_keywords
        IN  /\ Range(strong) \cap Range(weak) = {}
            /\ Range(strong) \cap Range(missing) = {}
            /\ Range(weak) \cap Range(missing) = {}
            /\ C4_NoRepeat(strong) /\ C4_NoRepeat(weak) /\ C4_NoRepeat(missing)
            /\ Range(strong) \cup Range(weak) \cup Range(missing)
                   = Range(dict_keys(extract_job_keywords(job)))

\* Five keywords, one per rule: python exact, leadership by the synonym
\* "led", kubernetes by the partial match "kubernete", java and developer
\* missing.
C4_Witness ==
    /\ pc = "done"
    /\ Range(dict_keys(extract_job_keywords(job)))
           = {"python", "java", "leadership", "kubernetes", "developer"}
    /\ \E m \in Range(keyword_analysis.weak_keywords) :
           m.keyword = "python" /\ m.match_type = "exact"
    /\ \E m \in Range(keyword_analysis.strong_keywords) :
           m.keyword = "leadership" /\ m.match_type = "synonym"
    /\ \E m \in Range(keyword_analysis.weak_keywords) :
           m.keyword = "kubernetes" /\ m.match_type = "partial"
    /\ keyword_analysis.missing_keywords = <<"java", "developer">>

(***************************************************************************)
(* C11: extract_skills and extract_required_skills report a table keyword  *)
(* (in title case) if and only if it occurs as a substring of some word of *)
(* the lowercased text, with no word-boundary test: "Go" is reported for a *)
(* job text whose only word holding it is "algorithm", "Express" for       *)
(* "expressed", "Ai" for a resume that has the word "email".               *)
(***************************************************************************)
C11_Reported(text, skills) ==
    \A k \in AllSkillKeywords :
        title[k] \in skills <=> \E w \in text.words : k \in SubstringsOf[w]

C12_Exact(keyword) == contains(get_all_text(resume), keyword)

C12_Synonym(keyword) ==
    /\ keyword \in DOMAIN synonyms
    /\ \E i \in DOMAIN synonyms[keyword] : contains(get_all_text(resume), synonyms[keyword][i])

C12_Partial(keyword) ==
    \E w \in Range(get_all_text(resume)) :
        Len(w) > 3 /\ Len(keyword) > 3 /\ w \in SimilarWords[keyword]

C12_TypeOf(keyword) ==
    LET matches == Range(C4_Outputs.strong_keywords) \cup Range(C4_Outputs.weak_keywords)
    IN  IF \E m \in matches : m.keyword = keyword
        THEN (CHOOSE m \in matches : m.keyword = keyword).match_type
        ELSE "missing"

C12_FirstRuleWins ==
    pc # "start" =>
        \A k \in Range(dict_keys(extract_job_keywords(job))) :
            C12_TypeOf(k) = IF C12_Exact(k) THEN "exact"
                            ELSE IF C12_Synonym(k) THEN "synonym"
                            ELSE IF C12_Partial(k) THEN "partial"
                            ELSE "missing"

(***************************************************************************)
(* C12 as the code has it: the fuzzy partial match is tried only for a     *)
(* keyword that has no entry in the synonym table; a keyword with an entry *)
(* and no synonym in the resume is reported missing.                       *)
(***************************************************************************)
C12_RegisteredSkipsPartial ==
    pc # "start" =>
        \A k \in Range(dict_keys(extract_job_keywords(job))) :
            C12_TypeOf(k) = IF C12_Exact(k) THEN "exact"
                            ELSE IF k \in DOMAIN synonyms
                                 THEN (IF C12_Synonym(k) THEN "synonym" ELSE "missing")
                            ELSE IF C12_Partial(k) THEN "partial"
                            ELSE "missing"

\* The job asks for leadership, the resume lists "Laedership" (ratio 0.9)
\* and has no synonym of leadership: leadership is reported missing.
C12_Witness ==
    /\ pc = "done"
    /\ resume.skills = <<"Laedership">>
    /\ resume.summary = <<>>
    /\ job.required_skills = <<JobSkill("Leadership", 10), JobSkill("Kubernetes", 10)>>
    /\ job.title = <<>>
    /\ C12_Partial("leadership")
    /\ keyword_analysis.missing_keywords = <<"leadership", "kubernetes">>

(***************************************************************************)
(* C13: for every job keyword weight map, the empty map and a non-empty    *)
(* map whose weights sum to zero included, _calculate_coverage_score       *)
(* returns a number in [0, 100] and never fails with a division by zero.   *)
(***************************************************************************)
C13_InRange(p) == p.whole > 0 /\ 0 <= p.part /\ p.part <= p.whole

C13_CoverageNeverDivides ==
    pc # "start" =>
        /\ pc = "done"
        /\ C13_InRange(keyword_analysis.coverage_score)

(***************************************************************************)
(* C13 as the code has it: only the empty map is special-cased (100.0).    *)
(* A non-empty map whose weights sum to zero raises ZeroDivisionError;     *)
(* every other map gives a number in [0, 100].                             *)
(***************************************************************************)
C13_ZeroSum ==
    /\ extract_job_keywords(job) # <<>>
    /\ sum_values(extract_job_keywords(job)) = 0

C13_ZeroSumRaises ==
    pc # "start" =>
        IF C13_ZeroSum THEN pc = "raised"
        ELSE /\ pc = "done"
             /\ C13_InRange(keyword_analysis.coverage_score)
             /\ extract_job_keywords(job) = <<>> => IsHundred(keyword_analysis.coverage_score)

\* Two required skills of importance 0 and no other keyword source.
C13_Witness ==
    /\ pc = "raised"
    /\ job.required_skills = <<JobSkill("Python", 0), JobSkill("Java", 0)>>
    /\ job.title = <<>>
    /\ keyword_analysis.raised

----------------------------------------------------------------------------
(***************************************************************************)
(* services/scoring_engine.py: ScoringEngine.calculate_ats_score, the      *)
(* weighted formulation.  A score is held as the exact ratio               *)
(* Percent(part, whole) whose double approximation the code computes.      *)
(***************************************************************************)
MaxCritical == 5
MaxMissing == 11

\* [issue for issue in formatting_analysis.issues if issue.severity.value == 'critical']
critical_issues(fa) == SelectSeq(fa.issues, LAMBDA issue : issue.severity = CRITICAL)

critical_penalty_mutant_uncapped(fa) == Len(critical_issues(fa)) * 5

\* The penalty for critical issues: 0 without one.
critical_penalty(fa) ==
    IF critical_issues(fa) # <<>> THEN Min(20, Len(critical_issues(fa)) * 5) ELSE 0

\* ats_score in thousandths of coverage_score.whole:
\* keyword_score * 0.5 + formatting_score * 0.3 + structure_score * 0.2 - penalty
service_calculate_ats_score(ka, fa) ==
    LET coverage == ka.coverage_score
        whole == 1000 * coverage.whole
        weighted == 500 * coverage.part
                    + (3 * fa.ats_compatibility_score + 2 * fa.structure_score
                       - 10 * critical_penalty(fa)) * coverage.whole
    IN  Percent(Max(0, Min(whole, weighted)), whole)

(***************************************************************************)
(* The analyses drawn.  A KeywordAnalysis is that of a job whose keywords  *)
(* are key phrases (weight 6.0): some missing, some weak exact matches,    *)
(* some strong, in a resume of word_count words.  A FormattingAnalysis has *)
(* the ats_compatibility_score of its issues.                              *)
(***************************************************************************)
KeywordPool == skills_keywords[1].skills \o skills_keywords[2].skills

pool_matches(from, n) ==
    [i \in 1..n |-> KeywordMatch(KeywordPool[from + i], "exact", "skills", 240)]

pool_density(missing, matched, words) ==
    IF words = 0 THEN <<>>
    ELSE [i \in 1..(missing + matched) |->
             [key |-> KeywordPool[i],
              value |-> Percent(IF i <= missing THEN 0 ELSE 1, words)]]

KeywordAnalysisOf(missing, weak, strong, words) ==
    LET job_keywords == [i \in 1..(missing + weak + strong) |->
                            [key |-> KeywordPool[i], value |-> 240]]
        weak_keywords == pool_matches(missing, weak)
        strong_keywords == pool_matches(missing + weak, strong)
    IN  [raised |-> FALSE,
         coverage_score |->
             calculate_coverage_score(job_keywords, strong_keywords, weak_keywords).value,
         missing_keywords |-> [i \in 1..missing |-> KeywordPool[i]],
         weak_keywords |-> weak_keywords,
         strong_keywords |-> strong_keywords,
         keyword_density |-> pool_density(missing, weak + strong, words)]

KeywordAnalyses ==
    {KeywordAnalysisOf(m, w, s, n) :
        m \in {0, 1, 6, MaxMissing}, w \in {0, 1, 6}, s \in {0, 2}, n \in {0, 100, 400}}

issue_list(critical, major, nice) ==
    [i \in 1..(critical + major + nice) |->
        IF i <= critical THEN FormattingIssue("tables", CRITICAL)
        ELSE IF i <= critical + major THEN FormattingIssue("too_short", MAJOR)
        ELSE FormattingIssue("section_order", NICE_TO_HAVE)]

IssueLists ==
    {issue_list(c, m, n) : c \in 0..MaxCritical, m \in {0, 1, 3}, n \in {0, 1}}

\* 20 points are always earned, 25 for each required section, 15 for proper
\* headers, 15 for consistent formatting.
StructureScores == {20, 60, 100}

FormattingAnalyses ==
    {[ats_compatibility_score |-> calculate_ats_compatibility_score(issues),
      issues |-> issues, structure_score |-> s,
      has_proper_headers |-> h, has_consistent_formatting |-> c] :
        issues \in IssueLists, s \in StructureScores, h \in BOOLEAN, c \in BOOLEAN}

InitScoring ==
    /\ pc = "start"
    /\ keyword_analysis \in KeywordAnalyses
    /\ formatting \in FormattingAnalyses
    /\ weighted_ats = None
    /\ resume = None /\ job = None
    /\ impact = None /\ recommendation_list = None
    /\ bullet = None /\ bullet_analysis = None
    /\ job_recommendations = None
    /\ LikelihoodIdle
    /\ AnalyzeIdle
    /\ EndpointIdle

CalculateAtsScore ==
    /\ pc = "start"
    /\ weighted_ats' = service_calculate_ats_score(keyword_analysis, formatting)
    /\ pc' = "done"
    /\ UNCHANGED <<keyword_analysis, formatting, resume, job, impact, recommendation_list,
                   bullet, bullet_analysis, job_recommendations, likelihood_vars,
                   analyze_vars, endpoint_vars>>

NextScoring == CalculateAtsScore

SpecScoring == InitScoring /\ [][NextScoring]_vars

(***************************************************************************)
(* C14: the weighted ATS score is keyword coverage x 0.5 + ATS             *)
(* compatibility x 0.3 + structure x 0.2 minus min(20, 5 x number of       *)
(* critical formatting issues), clamped to [0, 100]: the result is in      *)
(* [0, 100] and the penalty is never more than 20.                         *)
(***************************************************************************)
C14_Critical ==
    Cardinality({i \in DOMAIN formatting.issues : formatting.issues[i].severity = CRITICAL})

C14_Penalty == IF 5 * C14_Critical < 20 THEN 5 * C14_Critical ELSE 20

\* The unclamped score times 1000 * keyword_analysis.coverage_score.whole
C14_Unclamped ==
    LET coverage == keyword_analysis.coverage_score
    IN  50000 * coverage.part
        + 300 * formatting.ats_compatibility_score * coverage.whole
        + 200 * formatting.structure_score * coverage.whole
        - 1000 * C14_Penalty * coverage.whole

C14_WeightedAtsScore ==
    pc = "done" =>
        LET scale == 1000 * keyword_analysis.coverage_score.whole
        IN  /\ weighted_ats.whole > 0
            /\ 0 <= weighted_ats.part /\ weighted_ats.part <= weighted_ats.whole
            /\ weighted_ats.whole = scale
            /\ weighted_ats.part * 100 =
                   (IF C14_Unclamped < 0 THEN 0
                    ELSE IF C14_Unclamped > 100 * scale THEN 100 * scale
                    ELSE C14_Unclamped)
            /\ critical_penalty(formatting) = C14_Penalty
            /\ critical_penalty(formatting) <= 20

\* Five critical issues cost 20 points, not 25: full coverage, ATS
\* compatibility 0 and structure 100 give 50 + 0 + 20 - 20 = 50.
C14_Witness ==
    /\ pc = "done"
    /\ C14_Critical = 5
    /\ IsHundred(keyword_analysis.coverage_score)
    /\ formatting.ats_compatibility_score = 0
    /\ formatting.structure_score = 100
    /\ weighted_ats.part * 2 = weighted_ats.whole

(***************************************************************************)
(* C15: in the driver-based ATS score, for every combination of the five   *)
(* boolean format checks the Format Compliance component is between 0 and  *)
(* 30 points, the Keyword Matching component is at most 40 points and the  *)
(* Experience Relevance component is at most 30 points.                    *)
(***************************************************************************)
C15_Driver(component) ==
    (CHOOSE driver \in Range(analysis.score_drivers) :
         driver.component = component).score

C15_DriverBounds ==
    pc = "done" =>
        /\ C15_Driver("Format Compliance") \in 0..30
        /\ C15_Driver("Keyword Matching") <= 40
        /\ C15_Driver("Experience Relevance") <= 30

(***************************************************************************)
(* C15 as the code has it: the five checks are worth 10, 10, 10, 5 and 5   *)
(* points, so Format Compliance is between 0 and 40; the other two bounds  *)
(* hold.                                                                   *)
(***************************************************************************)
C15_Points(flag, points) == IF flag THEN points ELSE 0

C15_FormatUpToForty ==
    pc = "done" =>
        /\ C15_Driver("Format Compliance") \in 0..40
        /\ C15_Driver("Format Compliance") =
               C15_Points(resume_data.format.has_contact_info, 10)
               + C15_Points(resume_data.format.has_summary, 10)
               + C15_Points(resume_data.format.has_experience, 10)
               + C15_Points(~resume_data.format.has_tables, 5)
               + C15_Points(~resume_data.format.has_images, 5)
        /\ C15_Driver("Keyword Matching") \in 0..40
        /\ C15_Driver("Experience Relevance") \in {10, 20, 25, 30}

\* Contact information, summary and experience present, no table and no image.
C15_Witness ==
    /\ pc = "done"
    /\ resume_text.words = {"email", "summary", "experience"}
    /\ C15_Driver("Format Compliance") = 40

(***************************************************************************)
(* C16: the structure score is min(100, 25 for each of the contact,        *)
(* experience and education sections present + 10 if a skills section is   *)
(* present + 10 if a summary section is present + 15 for proper headers    *)
(* + 15 for consistent formatting), the 10 points for skills and for       *)
(* summary being earned only when the resume has that section.  A section  *)
(* counts as present when it is among the parsed sections or its name      *)
(* occurs in the text.                                                     *)
(***************************************************************************)
C16_Present(section_name) ==
    section_name \in resume.sections \/ section_name \in found_in(resume.raw_text)

C16_Required ==
    Cardinality({sec \in {"contact", "experience", "education"} : has_section(resume, sec)})

C16_Bonus ==
      (IF has_proper_headers(resume) THEN 15 ELSE 0)
    + (IF has_consistent_formatting(resume) THEN 15 ELSE 0)

C16_StructureScore ==
    pc = "done" =>
        formatting.structure_score =
            Min(100, 25 * C16_Required
                     + (IF C16_Present("skills") THEN 10 ELSE 0)
                     + (IF C16_Present("summary") THEN 10 ELSE 0)
                     + C16_Bonus)

(***************************************************************************)
(* C16 as the code has it: the 10 points for skills and the 10 points for  *)
(* summary are earned by every resume, with or without these sections.     *)
(***************************************************************************)
C16_SkillsAndSummaryAlwaysEarned ==
    pc = "done" =>
        /\ formatting.structure_score = Min(100, 25 * C16_Required + 20 + C16_Bonus)
        /\ formatting.structure_score >= 20

\* A resume with no section at all, whose only points are the 20 for skills
\* and summary and the 15 for its (empty) consistent dates.
C16_Witness ==
    /\ pc = "done"
    /\ ~C16_Present("skills") /\ ~C16_Present("summary")
    /\ C16_Required = 0
    /\ formatting.structure_score = 35

(***************************************************************************)
(* ImpactAnalyzer (services/impact_analyzer.py).  A bullet is the sequence *)
(* of its whitespace-separated words; a phrase of several words is the     *)
(* sequence of its words.  self.nlp is None, so the verbs are looked up    *)
(* word by word.                                                           *)
(***************************************************************************)
MaxBulletWords == 4

strong_action_verbs ==
    {     "achieved", "accomplished", "delivered", "exceeded", "surpassed",
     "outperformed", "increased", "improved", "enhanced", "optimized",
     "streamlined", "accelerated", "reduced", "decreased", "minimized",
     "eliminated", "saved", "cut", "grew", "expanded", "scaled",
     "launched", "initiated", "established", "led", "managed", "directed",
     "oversaw", "spearheaded", "championed", "developed", "created",
     "built", "designed", "implemented", "executed", "analyzed",
     "evaluated", "assessed", "researched", "identified", "discovered"}

weak_action_verbs ==
    {     <<"helped">>, <<"assisted">>, <<"supported">>, <<"worked", "on">>,
     <<"participated">>, <<"involved">>, <<"responsible", "for">>,
     <<"in", "charge", "of">>, <<"tasked", "with">>, <<"assigned", "to">>,
     <<"helped", "with">>, <<"contributed", "to">>, <<"part", "of">>,
     <<"member", "of">>}

generic_phrases ==
    {     <<"responsible", "for">>, <<"involved", "in">>,
     <<"participated", "in">>, <<"worked", "on">>, <<"helped", "with">>,
     <<"assisted", "with">>, <<"contributed", "to">>, <<"part", "of">>,
     <<"member", "of">>, <<"tasked", "with">>, <<"assigned", "to">>,
     <<"in", "charge", "of">>, <<"duties", "included">>,
     <<"responsibilities", "included">>, <<"worked", "with">>}

impact_indicators ==
    {     "revenue", "profit", "sales", "growth", "efficiency", "productivity",
     "cost", "savings", "time", "quality", "satisfaction", "engagement",
     "retention", "acquisition", "conversion", "performance", "results",
     "outcome", "impact", "success", "achievement", "milestone"}

\* The words bullets are written with: a capitalised and two plain action
\* verbs, a verb followed by a comma, the words of three generic phrases,
\* an impact indicator and a percentage.
BulletVocabulary ==
    {"Achieved", "helped", "led", "managed,", "worked", "on", "with", "sales", "30%"}

\* word.lower()
bullet_lower(word) == IF word = "Achieved" THEN "achieved" ELSE word

\* re.search(pattern, bullet_text) for some metric pattern: every pattern
\* needs a digit, and a word with a digit matches the third one.
has_digit(word) == word \in {"30%"}

\* indicator in bullet_lower, for the words of the vocabulary: no indicator
\* is part of another word of the vocabulary, and none spans a space.
indicators_in(word) == {indicator \in impact_indicators : indicator = bullet_lower(word)}

\* phrase in bullet_lower: the words of the phrase follow one another in
\* the bullet (no word of the vocabulary ends or begins with a phrase word
\* other than that word itself).
phrase_in(phrase, words) ==
    \E i \in 0..(Len(words) - Len(phrase)) :
        \A j \in DOMAIN phrase : bullet_lower(words[i + j]) = phrase[j]

\* The verb loop without its break statements: a strong verb anywhere in
\* the bullet decides, a weak verb counts only when there is no strong one.
find_action_verb_mutant_no_break(words) ==
    IF \E i \in DOMAIN words : bullet_lower(words[i]) \in strong_action_verbs
    THEN [has_action_verb |-> TRUE, has_strong_verb |-> TRUE, verb_strength |-> 8]
    ELSE IF \E i \in DOMAIN words : <<bullet_lower(words[i])>> \in weak_action_verbs
    THEN [has_action_verb |-> TRUE, has_strong_verb |-> FALSE, verb_strength |-> 3]
    ELSE [has_action_verb |-> FALSE, has_strong_verb |-> FALSE, verb_strength |-> 0]

\* for word in words: the first word that is a strong or a weak action
\* verb ends the loop.  A weak verb of several words equals no single word.
RECURSIVE find_action_verb(_)
find_action_verb(words) ==
    IF words = <<>>
    THEN [has_action_verb |-> FALSE, has_strong_verb |-> FALSE, verb_strength |-> 0]
    ELSE IF bullet_lower(Head(words)) \in strong_action_verbs
    THEN [has_action_verb |-> TRUE, has_strong_verb |-> TRUE, verb_strength |-> 8]
    ELSE IF <<bullet_lower(Head(words))>> \in weak_action_verbs
    THEN [has_action_verb |-> TRUE, has_strong_verb |-> FALSE, verb_strength |-> 3]
    ELSE find_action_verb(Tail(words))

generic_phrases_in(words) == {phrase \in generic_phrases : phrase_in(phrase, words)}

\* The orders in which a Python set of strings may be iterated.
Orderings(S) ==
    {order \in [1..Cardinality(S) -> S] :
        \A i, j \in DOMAIN order : order[i] = order[j] => i = j}

generate_bullet_suggestion(has_metrics, has_strong_verb, found_phrases) ==
    LET suggestions ==
            SelectIf(~has_strong_verb, <<"Start with a strong action verb">>)
            \o SelectIf(~has_metrics, <<"Add quantifiable results or metrics">>)
            \o SelectIf(found_phrases # <<>>,
                        <<"Replace generic phrases like">> \o
                        (IF found_phrases # <<>> THEN found_phrases[1] ELSE <<>>))
    IN  IF suggestions = <<>> THEN << <<"This bullet point is well-structured">> >>
        ELSE suggestions

\* found_phrases is the list built from the set generic_phrases, in the
\* order the set is iterated.
analyze_bullet_point(words, found_phrases) ==
    LET verb == find_action_verb(words)
        has_metrics == \E i \in DOMAIN words : has_digit(words[i])
        has_impact_indicators == \E i \in DOMAIN words : indicators_in(words[i]) # {}
        strength_score ==
              (IF verb.has_strong_verb THEN 4 ELSE IF verb.has_action_verb THEN 2 ELSE 0)
            + (IF has_metrics THEN 3 ELSE 0)
            + (IF has_impact_indicators THEN 2 ELSE 0)
            - (IF found_phrases # <<>> THEN 2 ELSE 0)
    IN  [has_metrics |-> has_metrics,
         has_action_verb |-> verb.has_action_verb,
         strength_score |-> Max(0, Min(10, strength_score)),
         generic_phrases |-> found_phrases,
         suggestion |-> generate_bullet_suggestion(has_metrics, verb.has_strong_verb,
                                                   found_phrases)]

(***************************************************************************)
(* Specification SpecImpact: calls of _analyze_bullet_point on the bullets *)
(* of at most MaxBulletWords words.                                        *)
(***************************************************************************)
Bullets == UNION {[1..n -> BulletVocabulary] : n \in 0..MaxBulletWords}

InitImpact ==
    /\ pc = "start"
    /\ bullet \in Bullets
    /\ bullet_analysis = None
    /\ impact = None /\ weighted_ats = None /\ recommendation_list = None
    /\ job_recommendations = None
    /\ LikelihoodIdle
    /\ AnalyzeIdle
    /\ FormattingIdle
    /\ KeywordIdle
    /\ EndpointIdle

AnalyzeBulletPoint ==
    /\ pc = "start"
    /\ \E found_phrases \in Orderings(generic_phrases_in(bullet)) :
           bullet_analysis' = analyze_bullet_point(bullet, found_phrases)
    /\ pc' = "done"
    /\ UNCHANGED <<bullet, impact, weighted_ats, recommendation_list, job_recommendations,
                   likelihood_vars, analyze_vars, formatting_vars, keyword_vars, endpoint_vars>>

NextImpact == AnalyzeBulletPoint

SpecImpact == InitImpact /\ [][NextImpact]_vars

(***************************************************************************)
(* C17: for every bullet, _analyze_bullet_point gives the +4 strong-verb   *)
(* contribution whenever the bullet contains a strong action verb, and the *)
(* +2 weak-verb contribution only when it contains a weak action verb and  *)
(* no strong one, whatever the order of the words in the bullet.           *)
(***************************************************************************)
C17_Strong == {i \in DOMAIN bullet : bullet_lower(bullet[i]) \in strong_action_verbs}
C17_Weak == {i \in DOMAIN bullet : <<bullet_lower(bullet[i])>> \in weak_action_verbs}

C17_Rest ==
      (IF bullet_analysis.has_metrics THEN 3 ELSE 0)
    + (IF \E i \in DOMAIN bullet : indicators_in(bullet[i]) # {} THEN 2 ELSE 0)
    - (IF bullet_analysis.generic_phrases # <<>> THEN 2 ELSE 0)

C17_Scored(verb_points) ==
    bullet_analysis.strength_score = Max(0, Min(10, verb_points + C17_Rest))

C17_StrongVerbAnywhere ==
    pc = "done" =>
        C17_Scored(IF C17_Strong # {} THEN 4 ELSE IF C17_Weak # {} THEN 2 ELSE 0)

(***************************************************************************)
(* C17 as the code has it: the first action verb in word order decides.    *)
(* The bullet earns 4 when its first action verb is strong and 2 when it   *)
(* is weak, also when a strong verb follows the weak one.                  *)
(***************************************************************************)
C17_First == CHOOSE i \in C17_Strong \cup C17_Weak :
                 \A j \in C17_Strong \cup C17_Weak : i <= j

C17_FirstVerbDecides ==
    pc = "done" =>
        /\ C17_Scored(IF C17_Strong \cup C17_Weak = {} THEN 0
                      ELSE IF C17_First \in C17_Strong THEN 4 ELSE 2)
        /\ bullet_analysis.has_action_verb = (C17_Strong \cup C17_Weak # {})

\* A weak verb before a strong one: 2 points, not 4.
C17_Witness ==
    /\ pc = "done"
    /\ bullet = <<"helped", "Achieved">>
    /\ bullet_analysis.strength_score = 2

(***************************************************************************)
(* RecommendationEngine (services/recommendation_engine.py).  A priority   *)
(* score is held in tenths (10.0 is 100); every priority the engine        *)
(* assigns is a multiple of 0.5.  A title is the sequence of its fixed     *)
(* text and, where it has one, the issue type it is built from.            *)
(***************************************************************************)
MaxWeakBullets == 9

Recommendation(category, severity, title_words, priority_score) ==
    [category |-> category, severity |-> severity, title |-> title_words,
     priority_score |-> priority_score]

calculate_keyword_priority_score(n, severity) ==
    LET base_score == IF severity = CRITICAL THEN 90
                      ELSE IF severity = MAJOR THEN 70 ELSE 40
    IN  IF n > 10 THEN base_score + 10
        ELSE IF n > 5 THEN base_score + 5
        ELSE base_score

calculate_impact_priority_score(n, severity) ==
    LET base_score == IF severity = CRITICAL THEN 90
                      ELSE IF severity = MAJOR THEN 75 ELSE 50
    IN  IF n > 8 THEN base_score + 10
        ELSE IF n > 4 THEN base_score + 5
        ELSE base_score

\* density < 0.5, the density being part / whole * 100
low_density(density) == 200 * density.part < density.whole

generate_keyword_recommendations(ka) ==
    LET missing_count == Len(ka.missing_keywords)
        missing_severity == IF missing_count > 10 THEN CRITICAL ELSE MAJOR
        weak_count == Len(ka.weak_keywords)
        weak_severity == IF weak_count > 5 THEN MAJOR ELSE NICE_TO_HAVE
        low_density_keywords ==
            SelectSeq(ka.keyword_density, LAMBDA entry : low_density(entry.value))
    IN  SelectIf(ka.missing_keywords # <<>>,
                 Recommendation("keyword", missing_severity, <<"Add Missing Keywords">>,
                     calculate_keyword_priority_score(missing_count, missing_severity)))
        \o SelectIf(ka.weak_keywords # <<>>,
                 Recommendation("keyword", weak_severity, <<"Strengthen Keyword Integration">>,
                     calculate_keyword_priority_score(weak_count, weak_severity)))
        \o SelectIf(low_density_keywords # <<>>,
                 Recommendation("keyword", MAJOR, <<"Increase Keyword Density">>, 70))

generate_formatting_recommendations(fa) ==
    LET critical == critical_issues(fa)
        major_issues == SelectSeq(fa.issues, LAMBDA issue : issue.severity = MAJOR)
    IN  [i \in 1..Min(3, Len(critical)) |->
            Recommendation("formatting", CRITICAL,
                <<"Fix Critical Formatting Issue", critical[i].issue_type>>, 90)]
        \o [i \in 1..Min(2, Len(major_issues)) |->
            Recommendation("formatting", MAJOR,
                <<"Improve Formatting", major_issues[i].issue_type>>, 70)]
        \o SelectIf(~fa.has_proper_headers,
                 Recommendation("formatting", MAJOR, <<"Use Standard Section Headers">>, 60))

generate_impact_recommendations(ia) ==
    LET weak_count == Len(ia.weak_bullets)
        severity == IF weak_count > 5 THEN MAJOR ELSE NICE_TO_HAVE
        bullets_without_metrics ==
            SelectSeq(ia.weak_bullets, LAMBDA b : ~b.has_metrics)
    IN  SelectIf(ia.weak_bullets # <<>>,
                 Recommendation("impact", severity, <<"Strengthen Impact Statements">>,
                     calculate_impact_priority_score(weak_count, severity)))
        \o SelectIf(ia.generic_phrases_found # <<>>,
                 Recommendation("impact", MAJOR, <<"Replace Generic Phrases">>, 80))
        \o SelectIf(bullets_without_metrics # <<>>,
                 Recommendation("impact", MAJOR, <<"Add Quantifiable Metrics">>, 75))

generate_structure_recommendations(fa) ==
    SelectIf(fa.structure_score < 70,
             Recommendation("structure", MAJOR, <<"Improve Resume Structure">>, 65))
    \o SelectIf(~fa.has_consistent_formatting,
             Recommendation("structure", MAJOR, <<"Ensure Consistent Formatting">>, 60))

generate_score_based_recommendations(ats, recruiter) ==
    SelectIf(ats < 60,
             Recommendation("keyword", CRITICAL,
                            <<"Critical: Improve ATS Compatibility">>, 100))
    \o SelectIf(recruiter < 60,
             Recommendation("impact", CRITICAL,
                            <<"Critical: Enhance Recruiter Appeal">>, 95))
    \o SelectIf(ats >= 60 /\ recruiter >= 60,
             Recommendation("impact", NICE_TO_HAVE, <<"Optimize for Excellence">>, 50))

\* The recommendations in the order they are appended to the list.
generated_recommendations(ka, fa, ia, ats, recruiter) ==
    generate_keyword_recommendations(ka)
    \o generate_formatting_recommendations(fa)
    \o generate_impact_recommendations(ia)
    \o generate_structure_recommendations(fa)
    \o generate_score_based_recommendations(ats, recruiter)

\* A sort that puts a recommendation before those of equal priority that
\* were generated before it.
insert_by_priority_mutant_before_ties(rec, sorted) ==
    LET before == SelectSeq(sorted, LAMBDA r : r.priority_score > rec.priority_score)
        after == SelectSeq(sorted, LAMBDA r : r.priority_score <= rec.priority_score)
    IN  before \o <<rec>> \o after

\* list.sort is stable, with reverse=True as well: a recommendation is
\* placed after those of higher or equal priority generated before it.
insert_by_priority(rec, sorted) ==
    LET before == SelectSeq(sorted, LAMBDA r : r.priority_score >= rec.priority_score)
        after == SelectSeq(sorted, LAMBDA r : r.priority_score < rec.priority_score)
    IN  before \o <<rec>> \o after

\* The sort without reverse=True.
sort_by_priority_mutant_ascending(recs) ==
    LET rank(i) == Cardinality({j \in DOMAIN recs :
                        \/ recs[j].priority_score < recs[i].priority_score
                        \/ recs[j].priority_score = recs[i].priority_score /\ j < i})
    IN  [k \in DOMAIN recs |-> recs[CHOOSE i \in DOMAIN recs : rank(i) = k - 1]]

\* recommendations.sort(key=lambda x: x.priority_score, reverse=True)
RECURSIVE sort_by_priority(_)
sort_by_priority(recs) ==
    IF recs = <<>> THEN <<>>
    ELSE insert_by_priority(recs[Len(recs)], sort_by_priority(SubSeq(recs, 1, Len(recs) - 1)))

\* recommendations[:10]
top_ten(recs) == SubSeq(recs, 1, Min(10, Len(recs)))

service_generate_recommendations(ka, fa, ia, ats, recruiter) ==
    top_ten(sort_by_priority(generated_recommendations(ka, fa, ia, ats, recruiter)))

(***************************************************************************)
(* Specification SpecRecommend: calls of generate_recommendations on       *)
(* drawn keyword, formatting and impact analyses and two headline scores.  *)
(***************************************************************************)
ImpactBullet(has_metrics) ==
    [has_metrics |-> has_metrics, has_action_verb |-> TRUE, strength_score |-> 3]

\* weak bullets of which the first `without` have no metric
ImpactAnalysisOf(weak, without, generic) ==
    [weak_bullets |-> [i \in 1..weak |-> ImpactBullet(i > without)],
     strong_bullets |-> <<>>,
     generic_phrases_found |-> generic]

ImpactAnalyses ==
    {ImpactAnalysisOf(weak, without, generic) :
        weak \in {0, 1, 5, 6, MaxWeakBullets}, without \in {0, 1},
        generic \in {<<>>, << <<"worked", "on">> >>}}

RecommendKeywordAnalyses ==
    {KeywordAnalysisOf(m, w, 0, n) : m \in {0, 6, MaxMissing}, w \in {0, 6}, n \in {100, 400}}

RecommendFormattingAnalyses ==
    {fa \in FormattingAnalyses :
        /\ Len(critical_issues(fa)) \in {0, MaxCritical}
        /\ Len(fa.issues) - Len(critical_issues(fa)) \in {0, 3}
        /\ fa.structure_score \in {60, 100}}

HeadlineScores == {0, 59, 60}

InitRecommend ==
    /\ pc = "start"
    /\ keyword_analysis \in RecommendKeywordAnalyses
    /\ formatting \in RecommendFormattingAnalyses
    /\ impact \in ImpactAnalyses
    /\ ats_score \in HeadlineScores
    /\ recruiter_score \in HeadlineScores
    /\ recommendation_list = None
    /\ resume_data = None /\ job_data = None /\ likelihood_result = None
    /\ resume = None /\ job = None
    /\ weighted_ats = None /\ bullet = None /\ bullet_analysis = None
    /\ job_recommendations = None
    /\ AnalyzeIdle
    /\ EndpointIdle

GenerateRecommendations ==
    /\ pc = "start"
    /\ recommendation_list' =
           service_generate_recommendations(keyword_analysis, formatting, impact,
                                            ats_score, recruiter_score)
    /\ pc' = "done"
    /\ UNCHANGED <<keyword_analysis, formatting, impact, ats_score, recruiter_score,
                   resume_data, job_data, likelihood_result, resume, job,
                   weighted_ats, bullet, bullet_analysis, job_recommendations,
                   analyze_vars, endpoint_vars>>

NextRecommend == GenerateRecommendations

SpecRecommend == InitRecommend /\ [][NextRecommend]_vars

(***************************************************************************)
(* C18: generate_recommendations returns at most 10 recommendations in     *)
(* non-increasing order of priority_score, and recommendations of equal    *)
(* priority_score appear in the order in which they were generated         *)
(* (keyword, formatting, impact, structure, score-based).  The i-th        *)
(* generated recommendation is preceded exactly by those of higher         *)
(* priority and those of equal priority generated before it.               *)
(***************************************************************************)
C18_Generated ==
    generated_recommendations(keyword_analysis, formatting, impact,
                              ats_score, recruiter_score)

C18_Before(generated, i) ==
    Cardinality({j \in DOMAIN generated :
        \/ generated[j].priority_score > generated[i].priority_score
        \/ generated[j].priority_score = generated[i].priority_score /\ j < i})

C18_SortedStableTopTen ==
    pc = "done" =>
        LET generated == C18_Generated
        IN  /\ Len(recommendation_list) = Min(10, Len(generated))
            /\ Len(recommendation_list) <= 10
            /\ \A k \in 1..(Len(recommendation_list) - 1) :
                   recommendation_list[k].priority_score
                       >= recommendation_list[k + 1].priority_score
            /\ \A i \in DOMAIN generated :
                   C18_Before(generated, i) < 10 =>
                       recommendation_list[C18_Before(generated, i) + 1] = generated[i]

\* More than 10 recommendations generated, and among the 10 returned a
\* keyword and a formatting recommendation of equal priority, the keyword
\* one first.
C18_Witness ==
    /\ pc = "done"
    /\ Len(C18_Generated) > 10
    /\ Len(recommendation_list) = 10
    /\ \E k \in 1..9 :
          /\ recommendation_list[k].priority_score
                 = recommendation_list[k + 1].priority_score
          /\ recommendation_list[k].category = "keyword"
          /\ recommendation_list[k + 1].category = "formatting"

(***************************************************************************)
(* C19: whenever ats_score < 60 the returned list contains the critical    *)
(* "Improve ATS Compatibility" recommendation, and whenever                *)
(* recruiter_score < 60 it contains the critical "Enhance Recruiter        *)
(* Appeal" recommendation: the cap of 10 never drops either of them.       *)
(***************************************************************************)
C19_Returned(title_words) ==
    \E k \in DOMAIN recommendation_list :
        /\ recommendation_list[k].title = <<title_words>>
        /\ recommendation_list[k].severity = CRITICAL

C19_CriticalKept ==
    pc = "done" =>
        /\ ats_score < 60 => C19_Returned("Critical: Improve ATS Compatibility")
        /\ recruiter_score < 60 => C19_Returned("Critical: Enhance Recruiter Appeal")

\* All 16 recommendations generated, 6 of them dropped, both critical ones kept.
C19_Witness ==
    /\ pc = "done"
    /\ ats_score < 60 /\ recruiter_score < 60
    /\ Len(C18_Generated) = 16
    /\ C19_Returned("Critical: Improve ATS Compatibility")
    /\ C19_Returned("Critical: Enhance Recruiter Appeal")

(***************************************************************************)
(* AnalysisEngine._find_similar_jobs (analysis_engine.py).  The call is    *)
(* made with the resume skills and the job skills the extraction reports.  *)
(* A match score is a double: it is held as the exact fraction num / den   *)
(* with a flag telling that the double computed lies just below an exact   *)
(* integer value (87.99999999999999 for 88).  Within one call two exact    *)
(* values that differ are further apart than the rounding error, and equal *)
(* values are computed from equal operands, so the order of the doubles is *)
(* the order of the fractions.                                             *)
(***************************************************************************)
MaxSimilarYears == 11

\* The skill names the review scripts (final_review.py, ultimate_test.py)
\* write by hand, with their lower case.
HandWrittenLower ==
    ("JavaScript" :> "javascript") @@ ("SQL" :> "sql") @@ ("PostgreSQL" :> "postgresql")

\* skill.lower() of a reported skill name, of a hand-written one or of a
\* fixed lower-case skill.
skill_lower(name) ==
    IF name \in DOMAIN HandWrittenLower THEN HandWrittenLower[name]
    ELSE IF \E k \in AllSkillKeywords : title[k] = name THEN lower(name)
    ELSE name

\* len(skill) <= 8, for the names of the skill keywords.
LongNames == {"javascript", "postgresql", "elasticsearch", "kubernetes", "terraform", "scikit-learn", "tensorflow", "machine learning", "react native", "confluence", "photoshop"}
short_name(name) == skill_lower(name) \notin LongNames

\* 'script' in skill_lower, for the names of the skill keywords.
contains_script(name) == skill_lower(name) \in {"javascript"}

count_in(job_skills_lower, names) == Cardinality(job_skills_lower \cap names)

\* _infer_job_title; max() returns the first role with the largest count.
infer_job_title(job_skills) ==
    LET job_skills_lower == {skill_lower(x) : x \in job_skills}
        web_skills == count_in(job_skills_lower,
            {"html", "css", "javascript", "react", "vue", "angular", "node.js"})
        backend_skills == count_in(job_skills_lower,
            {"python", "java", "c++", "c#", "sql", "mysql", "postgresql"})
        data_skills == count_in(job_skills_lower,
            {"pandas", "numpy", "sql", "machine learning", "ai", "tensorflow"})
        devops_skills == count_in(job_skills_lower,
            {"aws", "docker", "kubernetes", "terraform", "jenkins"})
        mobile_skills == count_in(job_skills_lower,
            {"ios", "android", "react native", "flutter", "swift", "kotlin"})
        skill_counts == <<[role |-> "Frontend", n |-> web_skills],
                          [role |-> "Backend", n |-> backend_skills],
                          [role |-> "Data", n |-> data_skills],
                          [role |-> "DevOps", n |-> devops_skills],
                          [role |-> "Mobile", n |-> mobile_skills]>>
        primary == CHOOSE i \in DOMAIN skill_counts :
                       /\ \A j \in DOMAIN skill_counts : skill_counts[j].n <= skill_counts[i].n
                       /\ \A j \in 1..(i - 1) : skill_counts[j].n < skill_counts[i].n
    IN  IF job_skills = {} THEN <<"Developer">>
        ELSE IF web_skills > 0 /\ backend_skills > 0 /\ web_skills + backend_skills >= 3
        THEN <<"Fullstack", "Developer">>
        ELSE IF skill_counts[primary].n >= 2 THEN <<skill_counts[primary].role, "Developer">>
        ELSE <<"Developer">>

is_beginner_friendly(skill) ==
    \/ short_name(skill)
    \/ skill_lower(skill) \in {"html", "css", "sql", "git"}
    \/ contains_script(skill)
    \/ skill_lower(skill) \in {"javascript", "python", "java"}

\* for skill in job_skills: if skill not in entry_level_skills and
\* len(entry_level_skills) < 4 [and is_beginner_friendly]: append
RECURSIVE append_while_room(_, _, _)
append_while_room(job_skills, entry_level_skills, only_friendly) ==
    IF job_skills = <<>> THEN entry_level_skills
    ELSE LET skill == Head(job_skills)
         IN  append_while_room(Tail(job_skills),
                 IF /\ skill \notin Range(entry_level_skills)
                    /\ Len(entry_level_skills) < 4
                    /\ (only_friendly => is_beginner_friendly(skill))
                 THEN Append(entry_level_skills, skill)
                 ELSE entry_level_skills,
                 only_friendly)

\* The entry-level role asking for every skill of the job.
get_entry_level_skills_mutant_all(job_skills, resume_skills) == job_skills

\* _get_entry_level_skills
get_entry_level_skills(job_skills, resume_skills) ==
    LET resume_skills_lower == {skill_lower(x) : x \in resume_skills}
        owned == SelectSeq(job_skills, LAMBDA skill : skill_lower(skill) \in resume_skills_lower)
        friendly == append_while_room(job_skills, owned, TRUE)
        filled == append_while_room(job_skills, friendly, FALSE)
    IN  SubSeq(filled, 1, Min(4, Len(filled)))

similar_job_categories(resume_skills, job_skills, job_skills_list) ==
    <<[title |-> <<"Similar">> \o infer_job_title(job_skills) \o <<"Role">>,
       required_skills |-> job_skills_list,
       preferred_skills |-> <<>>,
       experience_range |-> <<1, 5>>],
      [title |-> <<"Entry-Level">> \o infer_job_title(job_skills) \o <<"Position">>,
       required_skills |-> get_entry_level_skills(job_skills_list, resume_skills),
       preferred_skills |-> <<>>,
       experience_range |-> <<0, 2>>],
      [title |-> <<"Senior">> \o infer_job_title(job_skills) \o <<"Position">>,
       required_skills |-> job_skills_list \o <<"leadership", "mentoring", "architecture">>,
       preferred_skills |-> <<"strategy", "team management">>,
       experience_range |-> <<5, 10>>]>>

\* exp_score in tenths
similar_exp_score(experience_range, resume_years) ==
    IF experience_range[1] <= resume_years /\ resume_years <= experience_range[2] THEN 10
    ELSE IF resume_years < experience_range[1] THEN 6
    ELSE 8

\* The skill scores p / q and experience scores e (in tenths) for which
\* (p / q * 0.7 + e / 10 * 0.3) * 100 is an integer that the double
\* arithmetic misses from below, for q up to 22.
RoundedBelow ==
    {<<1, 1, 6>>, <<1, 2, 10>>, <<1, 5, 6>>, <<1, 5, 10>>, <<1, 7, 6>>, <<1, 14, 8>>,
     <<2, 5, 10>>, <<2, 7, 8>>, <<3, 5, 8>>, <<3, 10, 8>>, <<3, 14, 6>>, <<3, 14, 10>>,
     <<4, 5, 10>>, <<4, 7, 6>>, <<4, 7, 8>>, <<6, 7, 10>>, <<7, 10, 10>>, <<11, 14, 8>>,
     <<11, 14, 10>>}

Score(num, den, below) == [num |-> num, den |-> den, below |-> below]

\* (skill_score * 0.7 + exp_score * 0.3) * 100 with skill_score = part / whole
weighted_match_score(part, whole, exp_score10) ==
    Score(70 * part + 3 * exp_score10 * whole, whole,
          \E entry \in RoundedBelow :
              entry[1] * whole = entry[2] * part /\ entry[3] = exp_score10)

\* The skill score without the double weight of the required skills.
skill_score_mutant_unweighted(required_match, preferred_match, required, preferred) ==
    IF required > 0
    THEN [part |-> required_match + preferred_match, whole |-> required + preferred]
    ELSE [part |-> 0, whole |-> 1]

skill_score(required_match, preferred_match, required, preferred) ==
    IF required > 0
    THEN [part |-> required_match * 2 + preferred_match, whole |-> required * 2 + preferred]
    ELSE [part |-> 0, whole |-> 1]

calculate_match_score(job_info, resume_skills, resume_years) ==
    LET required_skills == {skill_lower(x) : x \in Range(job_info.required_skills)}
        preferred_skills == {skill_lower(x) : x \in Range(job_info.preferred_skills)}
        resume_skills_lower == {skill_lower(x) : x \in resume_skills}
        required_match == Cardinality(resume_skills_lower \cap required_skills)
        preferred_match == Cardinality(resume_skills_lower \cap preferred_skills)
        exp_score10 == similar_exp_score(job_info.experience_range, resume_years)
        skill == skill_score(required_match, preferred_match,
                             Cardinality(required_skills), Cardinality(preferred_skills))
    IN  weighted_match_score(skill.part, skill.whole, exp_score10)

\* a < b, a >= n and int(a) for match scores
score_less(a, b) ==
    \/ a.num * b.den < b.num * a.den
    \/ a.num * b.den = b.num * a.den /\ a.below /\ ~b.below
score_at_least(a, n) == a.num > n * a.den \/ (a.num = n * a.den /\ ~a.below)
score_int(a) == (a.num \div a.den) - (IF a.below THEN 1 ELSE 0)

\* sorted(..., key=match_score, reverse=True): stable
RECURSIVE sorted_by_score(_)
sorted_by_score(jobs) ==
    IF jobs = <<>> THEN <<>>
    ELSE LET rest == sorted_by_score(SubSeq(jobs, 1, Len(jobs) - 1))
             last == jobs[Len(jobs)]
         IN  SelectSeq(rest, LAMBDA job_info : ~score_less(job_info.match_score, last.match_score))
             \o <<last>>
             \o SelectSeq(rest, LAMBDA job_info : score_less(job_info.match_score, last.match_score))

\* _get_match_reason: the wording chosen and the number it quotes.
get_match_reason(match_score, resume_skills, required_skills) ==
    LET resume_skills_lower == {skill_lower(x) : x \in resume_skills}
        matching_skills ==
            SelectSeq(required_skills, LAMBDA skill : skill_lower(skill) \in resume_skills_lower)
    IN  IF score_at_least(match_score, 70)
        THEN <<"Excellent match", Len(matching_skills),
               SubSeq(matching_skills, 1, Min(2, Len(matching_skills)))>>
        ELSE IF score_at_least(match_score, 50) THEN <<"Good match", Len(matching_skills)>>
        ELSE IF score_at_least(match_score, 30) THEN <<"Moderate match">>
        ELSE <<"Entry-level opportunity",
               SubSeq(required_skills, 1, Min(2, Len(required_skills)))>>

similar_recommendation(job_info, resume_skills) ==
    [title |-> job_info.title,
     match_score |-> score_int(job_info.match_score),
     experience_level |-> job_info.experience_range,
     required_skills |-> SubSeq(job_info.required_skills, 1,
                                Min(3, Len(job_info.required_skills))),
     match_reason |-> get_match_reason(job_info.match_score, resume_skills,
                                       job_info.required_skills)]

RECURSIVE above_floor(_, _)
above_floor(jobs, resume_skills) ==
    IF jobs = <<>> THEN <<>>
    ELSE SelectIf(~score_less(Head(jobs).match_score, Score(15, 1, FALSE))
                  /\ score_less(Score(15, 1, FALSE), Head(jobs).match_score),
                  similar_recommendation(Head(jobs), resume_skills))
         \o above_floor(Tail(jobs), resume_skills)

\* job_skills_list is list(job_skills): the skills in the order the set is
\* iterated.
find_similar_jobs(resume_skills, job_skills, job_skills_list, resume_years) ==
    IF job_skills = {} THEN <<>>
    ELSE LET categories == similar_job_categories(resume_skills, job_skills, job_skills_list)
             scored == [i \in DOMAIN categories |->
                           [title |-> categories[i].title,
                            required_skills |-> categories[i].required_skills,
                            preferred_skills |-> categories[i].preferred_skills,
                            experience_range |-> categories[i].experience_range,
                            match_score |-> calculate_match_score(categories[i], resume_skills,
                                                                  resume_years)]]
             sorted_jobs == sorted_by_score(scored)
         IN  above_floor(SubSeq(sorted_jobs, 1, Min(3, Len(sorted_jobs))), resume_skills)

\* Skills written into the role instead of read from the resume.
key_skills_mutant_hardcoded(resume_skills_list, category) == <<"Python", "Go", "Express">>

\* [s.title() for s in resume_skills_lower if s in category][:3], the set
\* resume_skills_lower being iterated in the order resume_skills_list.
key_skills(resume_skills_list, category) ==
    LET found == SelectSeq(resume_skills_list, LAMBDA s : s \in category)
    IN  [i \in 1..Min(3, Len(found)) |-> title[found[i]]]

RECURSIVE generic_recommendations_from(_, _, _, _)
generic_recommendations_from(resume_skills_list, resume_years, skill_analysis, i) ==
    IF i > Len(skill_analysis) THEN <<>>
    ELSE SelectIf(skill_analysis[i].skill_count >= 2,
                  [title |-> <<skill_analysis[i].title>>,
                   match_score |-> Min(85, skill_analysis[i].skill_count * 15 + 40),
                   experience_level |-> <<Max(0, resume_years - 1), resume_years + 2>>,
                   required_skills |-> key_skills(resume_skills_list, role_categories[i].skills),
                   match_reason |-> <<"Good match based on", skill_analysis[i].skill_count>>])
         \o generic_recommendations_from(resume_skills_list, resume_years, skill_analysis, i + 1)

\* _get_generic_recommendations with the fields of each recommendation;
\* resume_skills_list is the set resume_skills_lower in the order it is
\* iterated.
generic_recommendations(resume_skills, resume_skills_list, resume_years) ==
    IF resume_skills = {} THEN <<>>
    ELSE LET skill_analysis == analyze_resume_skills(Range(resume_skills_list))
             recommendations ==
                 sort_by_match_score(generic_recommendations_from(
                     resume_skills_list, resume_years, skill_analysis, 1))
         IN  SubSeq(recommendations, 1, Min(3, Len(recommendations)))

(***************************************************************************)
(* Specification SpecSimilar: calls of _generate_job_recommendations, on   *)
(* the resume and job dictionaries built from texts over two vocabularies  *)
(* and on the dictionaries the review scripts write by hand.  A job with   *)
(* skills is answered by _find_similar_jobs (pc "done"), a job without by  *)
(* _get_generic_recommendations (pc "generic").                            *)
(***************************************************************************)
SimilarResumeVocabulary == {"python", "javascript", "kubernetes"}
SimilarJobVocabulary == {"python", "javascript", "sql", "kubernetes", "postgresql"}
SimilarYears == {<<>>, <<2>>, <<5>>, <<MaxSimilarYears>>}

\* ultimate_test.py, lines 19-23; final_review.py writes the same resume.
ScriptResume ==
    [skills |-> {"Python", "JavaScript", "SQL"},
     experience |-> [years_experience |-> 3],
     format |-> [has_contact_info |-> TRUE, has_summary |-> TRUE, has_education |-> TRUE,
                 has_experience |-> TRUE, has_tables |-> FALSE, has_images |-> FALSE,
                 has_headers_footers |-> FALSE, word_count |-> 350]]

\* ultimate_test.py, lines 27-33 and 42-45.
ScriptJobs ==
    {[required_skills |-> {"Python", "JavaScript", "SQL", "PostgreSQL"},
      requirements |-> [years_experience_required |-> 2]],
     [required_skills |-> {},
      requirements |-> [years_experience_required |-> 2]]}

SimilarResumes ==
    {build_resume_data(Text(w, y, 0)) : w \in SUBSET SimilarResumeVocabulary, y \in SimilarYears}
    \cup {ScriptResume}

SimilarJobs ==
    {build_job_data(Text(w, <<>>, 0)) : w \in SUBSET SimilarJobVocabulary} \cup ScriptJobs

InitSimilar ==
    /\ pc = "start"
    /\ resume_data \in SimilarResumes
    /\ job_data \in SimilarJobs
    /\ job_recommendations = None
    /\ ats_score = None /\ recruiter_score = None /\ likelihood_result = None
    /\ impact = None /\ weighted_ats = None /\ recommendation_list = None
    /\ bullet = None /\ bullet_analysis = None
    /\ AnalyzeIdle
    /\ FormattingIdle
    /\ KeywordIdle
    /\ EndpointIdle

FindSimilarJobs ==
    /\ pc = "start"
    /\ job_data.required_skills # {}
    /\ \E job_skills_list \in Orderings(job_data.required_skills) :
           job_recommendations' =
               find_similar_jobs(resume_data.skills, job_data.required_skills, job_skills_list,
                                 resume_data.experience.years_experience)
    /\ pc' = "done"
    /\ UNCHANGED <<resume_data, job_data, ats_score, recruiter_score, likelihood_result,
                   impact, weighted_ats, recommendation_list, bullet, bullet_analysis,
                   analyze_vars, formatting_vars, keyword_vars, endpoint_vars>>

GetGenericRecommendations ==
    /\ pc = "start"
    /\ job_data.required_skills = {}
    /\ \E resume_skills_list \in Orderings({skill_lower(x) : x \in resume_data.skills}) :
           job_recommendations' =
               generic_recommendations(resume_data.skills, resume_skills_list,
                                       resume_data.experience.years_experience)
    /\ pc' = "generic"
    /\ UNCHANGED <<resume_data, job_data, ats_score, recruiter_score, likelihood_result,
                   impact, weighted_ats, recommendation_list, bullet, bullet_analysis,
                   analyze_vars, formatting_vars, keyword_vars, endpoint_vars>>

NextSimilar == FindSimilarJobs \/ GetGenericRecommendations

SpecSimilar == InitSimilar /\ [][NextSimilar]_vars

(***************************************************************************)
(* C20: _find_similar_jobs scores each of the three role variants as       *)
(* (skill-overlap x 0.7 + experience-fit x 0.3) x 100 with skill-overlap   *)
(* = (2 x required matches + preferred matches) / (2 x required count +    *)
(* preferred count), and returns at most 3 variants, each with a match     *)
(* score strictly above 15, in non-increasing order of match score.  The   *)
(* score returned is the integer part of the double computed.  The similar *)
(* role requires the job's skills, the entry-level role the first 4 of     *)
(* them (the candidate's own first), the senior role 3 more, with 2        *)
(* preferred skills no resume reports.                                     *)
(***************************************************************************)
C20_Job == {skill_lower(x) : x \in job_data.required_skills}
C20_Matched == C20_Job \cap {skill_lower(x) : x \in resume_data.skills}

C20_RequiredMatches(variant) ==
    IF variant = "Entry-Level" THEN Min(4, Cardinality(C20_Matched))
    ELSE Cardinality(C20_Matched)

C20_RequiredCount(variant) ==
    IF variant = "Similar" THEN Cardinality(C20_Job)
    ELSE IF variant = "Entry-Level" THEN Min(4, Cardinality(C20_Job))
    ELSE Cardinality(C20_Job) + 3

C20_PreferredCount(variant) == IF variant = "Senior" THEN 2 ELSE 0

C20_ExperienceFit(variant) ==
    LET years == resume_data.experience.years_experience
        range == IF variant = "Similar" THEN <<1, 5>>
                 ELSE IF variant = "Entry-Level" THEN <<0, 2>> ELSE <<5, 10>>
    IN  IF range[1] <= years /\ years <= range[2] THEN 10
        ELSE IF years < range[1] THEN 6 ELSE 8

C20_Score(variant) ==
    weighted_match_score(2 * C20_RequiredMatches(variant),
                         2 * C20_RequiredCount(variant) + C20_PreferredCount(variant),
                         C20_ExperienceFit(variant))

C20_SimilarJobScores ==
    pc = "done" =>
        /\ Len(job_recommendations) <= 3
        /\ \A i \in DOMAIN job_recommendations :
               LET rec == job_recommendations[i]
                   score == C20_Score(rec.title[1])
               IN  /\ rec.title[1] \in {"Similar", "Entry-Level", "Senior"}
                   /\ rec.match_score = score_int(score)
                   /\ rec.match_score * score.den <= score.num
                   /\ score.num <= (rec.match_score + 1) * score.den
                   /\ rec.match_score > 15
        /\ \A i \in 1..(Len(job_recommendations) - 1) :
               job_recommendations[i].match_score >= job_recommendations[i + 1].match_score

\* Three variants with three different scores, the entry-level role first.
C20_Witness ==
    /\ pc = "done"
    /\ Len(job_recommendations) = 3
    /\ job_recommendations[1].title[1] = "Entry-Level"
    /\ job_recommendations[1].match_score > job_recommendations[2].match_score
    /\ job_recommendations[2].match_score > job_recommendations[3].match_score
    /\ job_recommendations[3].title[1] = "Senior"

(***************************************************************************)
(* C21: every skill listed in the required_skills of a job-role            *)
(* recommendation is one of the job's own required skills, or one of the   *)
(* senior-level additions leadership, mentoring and architecture, when the *)
(* job has skills, and is one of the candidate's own resume skills (named  *)
(* as .title() writes it) when the job has none; Go and Express appear     *)
(* only when the job or the resume has them.                               *)
(***************************************************************************)
C21_Listed == UNION {Range(job_recommendations[i].required_skills) :
                        i \in DOMAIN job_recommendations}

C21_Lower(names) == {skill_lower(x) : x \in names}

C21_SkillsDrawnFromInputs ==
    /\ pc = "done" =>
           C21_Listed \subseteq
               job_data.required_skills \cup {"leadership", "mentoring", "architecture"}
    /\ pc = "generic" =>
           /\ C21_Lower(C21_Listed) \subseteq C21_Lower(resume_data.skills)
           /\ \A name \in C21_Listed : name = title[skill_lower(name)]
    /\ pc \in {"done", "generic"} =>
           C21_Lower(C21_Listed) \cap {"go", "express"}
               \subseteq C21_Lower(job_data.required_skills \cup resume_data.skills)

\* The fallback on the hand-written resume: a backend role listing Sql, the
\* resume's SQL as .title() writes it.
C21_Witness ==
    /\ pc = "generic"
    /\ resume_data = ScriptResume
    /\ Len(job_recommendations) = 1
    /\ Range(job_recommendations[1].required_skills) = {"Python", "Sql"}

(***************************************************************************)
(* Seniority resolution: JobAnalyzer.extract_requirements and              *)
(* JobDescriptionParser._determine_seniority_level.                        *)
(***************************************************************************)

\* A job text is a set of title phrases and an optional "<n> years of
\* experience"; each phrase with the level keywords k for which
\* `k in text_lower` holds because of it.
LevelKeywordsIn ==
    ("engineer" :> {}) @@
    ("senior" :> {"senior"}) @@
    ("associate" :> {"associate"}) @@
    ("manager" :> {"manager"}) @@
    ("architect" :> {"architect"}) @@
    ("internal" :> {"intern"}) @@
    ("vice president" :> {"vice president"})

level_keyword_in(text, keyword) == \E w \in text.words : keyword \in LevelKeywordsIn[w]

\* seniority_keywords of JobAnalyzer.extract_requirements, in dict order.
analyzer_seniority_keywords ==
    <<[level |-> "entry", keywords |-> {"entry", "junior", "associate", "intern"}],
      [level |-> "mid", keywords |-> {"mid", "intermediate", "experienced"}],
      [level |-> "senior", keywords |-> {"senior", "sr", "lead", "principal", "staff"}],
      [level |-> "executive",
       keywords |-> {"director", "vp", "cto", "ceo", "manager", "head"}]>>

\* self.seniority_keywords of JobDescriptionParser, in dict order.
parser_seniority_keywords ==
    <<[level |-> "entry",
       keywords |-> {"entry", "junior", "associate", "intern", "graduate"}],
      [level |-> "junior",
       keywords |-> {"junior", "associate", "coordinator", "specialist"}],
      [level |-> "mid", keywords |-> {"mid", "intermediate", "analyst", "coordinator"}],
      [level |-> "senior", keywords |-> {"senior", "lead", "principal", "staff", "expert"}],
      [level |-> "staff", keywords |-> {"staff", "principal", "architect", "senior lead"}],
      [level |-> "principal",
       keywords |-> {"principal", "architect", "distinguished", "fellow"}],
      [level |-> "executive",
       keywords |-> {"director", "vp", "vice president", "c-level", "executive",
                     "head of"}]>>

\* The levels of a table of which a keyword occurs in the text.
levels_matching(table, text) ==
    {i \in DOMAIN table : \E k \in table[i].keywords : level_keyword_in(text, k)}

first_level_mutant_last(table, text) ==
    table[CHOOSE i \in levels_matching(table, text) :
              \A j \in levels_matching(table, text) : j <= i].level

\* for level, keywords in table.items(): the level of the first hit.
first_level(table, text) ==
    table[CHOOSE i \in levels_matching(table, text) :
              \A j \in levels_matching(table, text) : i <= j].level

\* JobAnalyzer.extract_requirements: seniority_level.
analyzer_seniority_level(text) ==
    IF levels_matching(analyzer_seniority_keywords, text) = {}
    THEN "mid"
    ELSE first_level(analyzer_seniority_keywords, text)

\* JobDescriptionParser._extract_years_experience: the number of the first
\* match, <<>> for the None without a match.
parser_years_experience(text) == text.years

\* The bands of `if years:` in _determine_seniority_level.
level_of_years(years) ==
    IF years <= 2 THEN "entry"
    ELSE IF years <= 4 THEN "junior"
    ELSE IF years <= 7 THEN "mid"
    ELSE IF years <= 10 THEN "senior"
    ELSE "staff"

\* The default based on the title, after the keyword loop and the years.
title_default(text) ==
    IF \E w \in {"director", "vp", "vice president", "c-level"} : level_keyword_in(text, w)
    THEN "executive"
    ELSE IF \E w \in {"senior", "lead", "principal"} : level_keyword_in(text, w)
    THEN "senior"
    ELSE IF \E w \in {"junior", "associate", "coordinator"} : level_keyword_in(text, w)
    THEN "junior"
    ELSE "mid"

\* JobDescriptionParser._determine_seniority_level.
determine_seniority_level(text) ==
    IF levels_matching(parser_seniority_keywords, text) # {}
    THEN first_level(parser_seniority_keywords, text)
    ELSE IF parser_years_experience(text) \notin {<<>>, <<0>>}
    THEN level_of_years(Head(parser_years_experience(text)))
    ELSE title_default(text)

MaxRequiredYears == 11

SeniorityYears == {<<>>, <<0>>, <<2>>, <<3>>, <<7>>, <<8>>, <<10>>, <<MaxRequiredYears>>}

SeniorityTexts ==
    {Text(w, y, 0) : w \in SUBSET DOMAIN LevelKeywordsIn, y \in SeniorityYears}

InitSeniority ==
    /\ pc = "start"
    /\ job_text \in SeniorityTexts
    /\ job_data = None
    /\ resume_text = None /\ analysis = None
    /\ ats_score = None /\ recruiter_score = None
    /\ resume_data = None /\ likelihood_result = None
    /\ FormattingIdle
    /\ KeywordIdle
    /\ ServiceIdle
    /\ EndpointIdle

ExtractRequirementsSeniority ==
    /\ pc = "start"
    /\ job_data' = [seniority_level |-> analyzer_seniority_level(job_text)]
    /\ pc' = "done"
    /\ UNCHANGED <<ats_score, recruiter_score, resume_data, likelihood_result,
                   analyze_vars, formatting_vars, keyword_vars, service_vars, endpoint_vars>>

DetermineSeniorityLevel ==
    /\ pc = "start"
    /\ job_data' = [seniority_level |-> determine_seniority_level(job_text)]
    /\ pc' = "parsed"
    /\ UNCHANGED <<ats_score, recruiter_score, resume_data, likelihood_result,
                   analyze_vars, formatting_vars, keyword_vars, service_vars, endpoint_vars>>

NextSeniority == ExtractRequirementsSeniority \/ DetermineSeniorityLevel

SpecSeniority == InitSeniority /\ [][NextSeniority]_vars

(***************************************************************************)
(* C22: both seniority resolvers return the first level, in the order of   *)
(* their level table, of which a keyword occurs in the text.  Without any  *)
(* level keyword JobAnalyzer.extract_requirements returns "mid";           *)
(* _determine_seniority_level returns "mid" only when the text states no   *)
(* years of experience (or 0), and otherwise the band of the years: entry  *)
(* up to 2, junior up to 4, mid up to 7, senior up to 10, staff above.     *)
(***************************************************************************)
C22_Table == IF pc = "done" THEN analyzer_seniority_keywords ELSE parser_seniority_keywords

C22_Hit(i) == \E k \in C22_Table[i].keywords : level_keyword_in(job_text, k)

C22_NoKeyword == \A i \in DOMAIN C22_Table : ~C22_Hit(i)

C22_FirstLevelWins ==
    pc \in {"done", "parsed"} =>
        \A i \in DOMAIN C22_Table :
            (C22_Hit(i) /\ \A j \in 1..(i - 1) : ~C22_Hit(j)) =>
                job_data.seniority_level = C22_Table[i].level

\* The sentence as written: "mid" whenever no level keyword occurs.
C22_FirstLevelElseMid ==
    /\ C22_FirstLevelWins
    /\ pc \in {"done", "parsed"} /\ C22_NoKeyword => job_data.seniority_level = "mid"

C22_Years == IF job_text.years = <<>> THEN 0 ELSE Head(job_text.years)

C22_FirstLevelElseYearsBand ==
    /\ C22_FirstLevelWins
    /\ pc = "done" /\ C22_NoKeyword => job_data.seniority_level = "mid"
    /\ pc = "parsed" /\ C22_NoKeyword =>
           job_data.seniority_level =
               CASE C22_Years = 0 -> "mid"
                 [] C22_Years \in 1..2 -> "entry"
                 [] C22_Years \in 3..4 -> "junior"
                 [] C22_Years \in 5..7 -> "mid"
                 [] C22_Years \in 8..10 -> "senior"
                 [] OTHER -> "staff"

\* "engineering manager, 8 years of experience": no keyword of the parser's
\* table, so the years decide and the level is senior.
C22_Witness ==
    /\ pc = "parsed"
    /\ job_text = Text({"engineer", "manager"}, <<8>>, 0)
    /\ job_data.seniority_level = "senior"

(***************************************************************************)
(* ResumeParser._extract_sections.                                         *)
(***************************************************************************)

MaxLines == 5

\* The section names of section_patterns, in dict order.
section_patterns ==
    <<"summary", "experience", "education", "skills", "certifications", "projects",
      "awards">>

\* Each line of the vocabulary, stripped, with the sections whose pattern
\* re.search finds in it; "" is a blank line.
PatternsFoundIn ==
    ("" :> {}) @@
    ("Summary" :> {"summary"}) @@
    ("Experience" :> {"experience"}) @@
    ("Skills and experience" :> {"skills", "experience"}) @@
    ("Built APIs" :> {}) @@
    ("Led a team" :> {})

\* for section_name, pattern in section_patterns.items(): ... break
section_of_line(line) ==
    IF PatternsFoundIn[line] = {} THEN None
    ELSE section_patterns[CHOOSE i \in DOMAIN section_patterns :
                              /\ section_patterns[i] \in PatternsFoundIn[line]
                              /\ \A j \in 1..(i - 1) :
                                     section_patterns[j] \notin PatternsFoundIn[line]]

save_section_mutant_append(sections, current_section, current_content) ==
    IF current_content = <<>> THEN sections
    ELSE [k \in DOMAIN sections \cup {current_section} |->
             IF k # current_section THEN sections[k]
             ELSE IF k \in DOMAIN sections THEN sections[k] \o current_content
             ELSE current_content]

\* if current_content: sections[current_section] = '\n'.join(current_content)
save_section(sections, current_section, current_content) ==
    IF current_content = <<>> THEN sections
    ELSE [k \in DOMAIN sections \cup {current_section} |->
             IF k = current_section THEN current_content ELSE sections[k]]

RECURSIVE extract_sections_from(_, _, _, _)
extract_sections_from(lines, sections, current_section, current_content) ==
    IF lines = <<>> THEN save_section(sections, current_section, current_content)
    ELSE IF Head(lines) = ""
    THEN extract_sections_from(Tail(lines), sections, current_section, current_content)
    ELSE IF section_of_line(Head(lines)) # None
    THEN extract_sections_from(Tail(lines),
                               save_section(sections, current_section, current_content),
                               section_of_line(Head(lines)), <<>>)
    ELSE extract_sections_from(Tail(lines), sections, current_section,
                               Append(current_content, Head(lines)))

\* ResumeParser._extract_sections: the section map, each text as its lines.
extract_sections(lines) == extract_sections_from(lines, <<>>, "header", <<>>)

ResumeLines == UNION {[1..n -> DOMAIN PatternsFoundIn] : n \in 0..MaxLines}

InitSections ==
    /\ pc = "start"
    /\ resume_text \in ResumeLines
    /\ resume = None
    /\ job_text = None /\ analysis = None /\ formatting = None
    /\ LikelihoodIdle
    /\ KeywordIdle
    /\ ServiceIdle
    /\ EndpointIdle

ExtractSections ==
    /\ pc = "start"
    /\ resume' = [sections |-> extract_sections(resume_text)]
    /\ pc' = "done"
    /\ UNCHANGED <<resume_text, job_text, analysis, formatting, likelihood_vars,
                   keyword_vars, service_vars, endpoint_vars>>

NextSections == ExtractSections

SpecSections == InitSections /\ [][NextSections]_vars

(***************************************************************************)
(* C23: every non-empty line that is not a section header is in the text   *)
(* of the section named by the nearest recognized header before it, or of  *)
(* the "header" bucket when none precedes it.                              *)
(***************************************************************************)
C23_IsHeader(i) == PatternsFoundIn[resume_text[i]] # {}

C23_IsContent(i) == resume_text[i] # "" /\ ~C23_IsHeader(i)

C23_HeaderBefore(i) ==
    IF \E h \in 1..(i - 1) : C23_IsHeader(h)
    THEN CHOOSE h \in 1..(i - 1) :
             C23_IsHeader(h) /\ \A g \in (h + 1)..(i - 1) : ~C23_IsHeader(g)
    ELSE 0

C23_SectionOf(i) ==
    IF C23_HeaderBefore(i) = 0 THEN "header"
    ELSE section_of_line(resume_text[C23_HeaderBefore(i)])

C23_Kept(i) ==
    /\ C23_SectionOf(i) \in DOMAIN resume.sections
    /\ resume_text[i] \in Range(resume.sections[C23_SectionOf(i)])

C23_NoLineLost ==
    pc = "done" => \A i \in DOMAIN resume_text : C23_IsContent(i) => C23_Kept(i)

\* What the section map holds: each section has the lines of the last block
\* of that name that has any line, and the lines of earlier blocks of the
\* same name are gone.
C23_Block(i) == {j \in DOMAIN resume_text :
                    C23_IsContent(j) /\ C23_HeaderBefore(j) = C23_HeaderBefore(i)}

C23_LastOfName(i) ==
    \A j \in DOMAIN resume_text :
        (C23_IsContent(j) /\ C23_SectionOf(j) = C23_SectionOf(i)) =>
            C23_HeaderBefore(j) <= C23_HeaderBefore(i)

C23_LastBlockKept ==
    pc = "done" =>
        /\ \A i \in DOMAIN resume_text :
               (C23_IsContent(i) /\ C23_LastOfName(i)) =>
                   /\ C23_Kept(i)
                   /\ Len(resume.sections[C23_SectionOf(i)]) = Cardinality(C23_Block(i))
        /\ \A s \in DOMAIN resume.sections :
               \E i \in DOMAIN resume_text : C23_IsContent(i) /\ C23_SectionOf(i) = s

\* Two experience blocks: the map keeps the second and loses "Built APIs".
C23_Witness ==
    /\ pc = "done"
    /\ resume_text = <<"Experience", "Built APIs", "Summary", "Experience", "Led a team">>
    /\ resume.sections = ("experience" :> <<"Led a team">>)

(***************************************************************************)
(* ResumeParser._extract_skills.                                           *)
(***************************************************************************)

MaxSkillTokens == 4

\* The text of the skills section is a sequence of tokens with one space
\* between them: names and separators, each with its len().
TokenLength == ("Python" :> 6) @@ ("python" :> 6) @@ ("C" :> 1) @@ ("," :> 1) @@ ("\n" :> 1)

\* str.lower() of a token.
TokenLower ==
    ("Python" :> "python") @@ ("python" :> "python") @@ ("C" :> "c") @@ ("," :> ",") @@
    ("\n" :> "\n")

separators == <<",", ";", "\n", "|">>

\* skills_text.split(separator), each piece as its tokens.
RECURSIVE split_tokens(_, _, _)
split_tokens(tokens, separator, piece) ==
    IF tokens = <<>> THEN <<piece>>
    ELSE IF Head(tokens) = separator
    THEN <<piece>> \o split_tokens(Tail(tokens), separator, <<>>)
    ELSE split_tokens(Tail(tokens), separator, Append(piece, Head(tokens)))

\* str.strip(): the spaces and line breaks at both ends go.
RECURSIVE strip(_)
strip(piece) ==
    IF piece = <<>> THEN <<>>
    ELSE IF Head(piece) = "\n" THEN strip(Tail(piece))
    ELSE IF piece[Len(piece)] = "\n" THEN strip(SubSeq(piece, 1, Len(piece) - 1))
    ELSE piece

\* [skill.strip() for skill in ... if skill.strip()]
stripped_pieces(pieces) ==
    LET kept == SelectSeq(pieces, LAMBDA piece : strip(piece) # <<>>)
    IN  [i \in DOMAIN kept |-> strip(kept[i])]

\* len(skill) of a stripped piece.
piece_is_long(piece) == Len(piece) > 1 \/ TokenLength[piece[1]] > 1

RECURSIVE drop_repeated(_, _)
drop_repeated(skills, seen) ==
    IF skills = <<>> THEN <<>>
    ELSE LET lowered == [i \in DOMAIN Head(skills) |-> TokenLower[Head(skills)[i]]]
         IN  IF lowered \in seen THEN drop_repeated(Tail(skills), seen)
             ELSE <<Head(skills)>> \o drop_repeated(Tail(skills), seen \cup {lowered})

returned_skills_mutant_unique(skills) ==
    drop_repeated(SelectSeq(skills, piece_is_long), {})

\* return [skill for skill in skills if skill and len(skill) > 1]
returned_skills(skills) == SelectSeq(skills, piece_is_long)

\* ResumeParser._extract_skills: the first separator that occurs splits the
\* text; a text that gives no entry that way is split into lines.
service_extract_skills(skills_text) ==
    LET present == {i \in DOMAIN separators : separators[i] \in Range(skills_text)}
        first == CHOOSE i \in present : \A j \in present : i <= j
        skills == IF present = {} THEN <<>>
                  ELSE stripped_pieces(split_tokens(skills_text, separators[first], <<>>))
        bullets == stripped_pieces(split_tokens(skills_text, "\n", <<>>))
    IN  IF skills_text = <<>> THEN <<>>
        ELSE IF skills # <<>> THEN returned_skills(skills)
        ELSE returned_skills(bullets)

SkillsTexts == UNION {[1..n -> DOMAIN TokenLength] : n \in 0..MaxSkillTokens}

InitSkills ==
    /\ pc = "start"
    /\ resume_text \in SkillsTexts
    /\ resume = None
    /\ job_text = None /\ analysis = None /\ formatting = None
    /\ LikelihoodIdle
    /\ KeywordIdle
    /\ ServiceIdle
    /\ EndpointIdle

ExtractSkills ==
    /\ pc = "start"
    /\ resume' = [skills |-> service_extract_skills(resume_text)]
    /\ pc' = "done"
    /\ UNCHANGED <<resume_text, job_text, analysis, formatting, likelihood_vars,
                   keyword_vars, service_vars, endpoint_vars>>

NextSkills == ExtractSkills

SpecSkills == InitSkills /\ [][NextSkills]_vars

(***************************************************************************)
(* C24: no two entries of the skills list of a parsed resume are equal     *)
(* when compared without regard to case.                                   *)
(***************************************************************************)
C24_Lower(entry) == [i \in DOMAIN entry |-> TokenLower[entry[i]]]

C24_NoRepeatedSkill ==
    pc = "done" =>
        \A i, j \in DOMAIN resume.skills :
            C24_Lower(resume.skills[i]) = C24_Lower(resume.skills[j]) => i = j

\* What the list holds: every occurrence of a name of more than one
\* character in the skills text is in an entry, repeated or not.
C24_InText(name) == Cardinality({i \in DOMAIN resume_text : resume_text[i] = name})

C24_InSkills(name) ==
    Cardinality({p \in (DOMAIN resume.skills) \X (1..MaxSkillTokens) :
                    /\ p[2] \in DOMAIN resume.skills[p[1]]
                    /\ resume.skills[p[1]][p[2]] = name})

C24_EveryOccurrenceListed ==
    pc = "done" =>
        \A name \in {"Python", "python"} : C24_InSkills(name) = C24_InText(name)

\* "Python, python": two entries that differ in case only.
C24_Witness ==
    /\ pc = "done"
    /\ resume_text = <<"Python", ",", "python">>
    /\ resume.skills = <<<<"Python">>, <<"python">>>>

(***************************************************************************)
(* ATSSimulator.simulate_ats_analysis.  Scores are in hundredths of a      *)
(* point, weights in hundredths, the weighted ATS score in ten-thousandths *)
(* of a point.                                                             *)
(***************************************************************************)

\* self.ats_platforms, in dict order.
ats_platforms ==
    <<[key |-> "workday", name |-> "Workday", keyword_weight |-> 60,
       formatting_weight |-> 30, structure_weight |-> 10,
       strict_parsing |-> TRUE, favors_simple_format |-> TRUE],
      [key |-> "greenhouse", name |-> "Greenhouse", keyword_weight |-> 50,
       formatting_weight |-> 25, structure_weight |-> 25,
       strict_parsing |-> FALSE, favors_simple_format |-> FALSE],
      [key |-> "lever", name |-> "Lever", keyword_weight |-> 55,
       formatting_weight |-> 20, structure_weight |-> 25,
       strict_parsing |-> FALSE, favors_simple_format |-> TRUE],
      [key |-> "bamboohr", name |-> "BambooHR", keyword_weight |-> 40,
       formatting_weight |-> 40, structure_weight |-> 20,
       strict_parsing |-> TRUE, favors_simple_format |-> TRUE],
      [key |-> "icims", name |-> "iCIMS", keyword_weight |-> 65,
       formatting_weight |-> 20, structure_weight |-> 15,
       strict_parsing |-> TRUE, favors_simple_format |-> TRUE]>>

platform_keys == {ats_platforms[i].key : i \in DOMAIN ats_platforms}

\* self.ats_platforms[platform]
ats_config_of(platform) == ats_platforms[CHOOSE i \in DOMAIN ats_platforms :
                                             ats_platforms[i].key = platform]

\* The marks a raw text can carry, each with the patterns re.search finds
\* in it: "simple" stands for the absence of a character outside
\* [\w\s.,;:!?\-()], which "<" and "#" are and an accented letter is not.
MarkPatterns ==
    ("<table" :> {"tables", "complex", "not simple"}) @@
    ("column" :> {"columns", "complex"}) @@
    ("image" :> {"images", "complex"}) @@
    ("accented letter" :> {"special_chars", "complex"}) @@
    ("font-size" :> {"complex_formatting", "complex"}) @@
    ("#" :> {"not simple"}) @@
    ("- " :> {"modern"})

found_in_raw_text(rd, pattern) == \E mark \in rd.raw_text : pattern \in MarkPatterns[mark]

\* The words of a job keyword, and the keywords and words that occur in a
\* phrase of the resume.
KeywordWords == ("python" :> {"python"}) @@ ("machine learning" :> {"machine", "learning"})

OccursInPhrase == ("python" :> {"python"}) @@ ("machine" :> {"machine"})

in_all_text(rd, needle) == \E phrase \in Range(rd.skills) : needle \in OccursInPhrase[phrase]

RECURSIVE halves_matched(_, _)
\* exact_matches += 1 and partial_matches += 0.5, in halves; the second
\* component counts the partial matches.
halves_matched(rd, job_keywords) ==
    IF job_keywords = <<>> THEN <<0, 0>>
    ELSE LET rest == halves_matched(rd, Tail(job_keywords))
         IN  IF in_all_text(rd, Head(job_keywords)) THEN <<rest[1] + 1, rest[2]>>
             ELSE IF \E word \in KeywordWords[Head(job_keywords)] : in_all_text(rd, word)
             THEN <<rest[1], rest[2] + 1>>
             ELSE rest

\* ATSSimulator._calculate_ats_keyword_score.
calculate_ats_keyword_score(rd, jd, ats_config) ==
    LET job_keywords == jd.required_skills \o jd.preferred_skills
        matched == halves_matched(rd, job_keywords)
        total_keywords == Len(job_keywords)
    IN  IF total_keywords = 0 THEN 10000
        ELSE IF ats_config.strict_parsing
        THEN Min(10000, (10000 * matched[1] + 2500 * matched[2]) \div total_keywords)
        ELSE Min(10000, (10000 * matched[1] + 5000 * matched[2]) \div total_keywords)

\* ATSSimulator._calculate_ats_formatting_score.
calculate_ats_formatting_score(rd, ats_config) ==
    LET base_score ==
            10000
            - (IF found_in_raw_text(rd, "tables") THEN 1500 ELSE 0)
            - (IF found_in_raw_text(rd, "columns") THEN 1000 ELSE 0)
            - (IF found_in_raw_text(rd, "images") THEN 2000 ELSE 0)
            - (IF found_in_raw_text(rd, "special_chars") THEN 500 ELSE 0)
            - (IF found_in_raw_text(rd, "complex_formatting") THEN 800 ELSE 0)
            + (IF ats_config.favors_simple_format /\ ~found_in_raw_text(rd, "not simple")
               THEN 500 ELSE 0)
    IN  Min(10000, Max(0, base_score))

\* self.ats_quirks['header_parsing'][list(self.ats_platforms.keys())[0]]
simulator_required_sections == <<"summary", "experience", "education", "skills">>

\* ATSSimulator._calculate_ats_structure_score.
calculate_ats_structure_score(rd) ==
    LET found_sections == Cardinality(Range(simulator_required_sections) \cap rd.sections)
    IN  Min(10000,
            (found_sections * 4000) \div Len(simulator_required_sections)
            + 500 * Cardinality(rd.contact_info)
            + (IF rd.experience > 0 THEN Min(2000, rd.experience * 500) ELSE 0)
            + (IF rd.skills # <<>> THEN Min(1000, Len(rd.skills) * 50) ELSE 0)
            + (IF rd.education THEN 1000 ELSE 0))

\* ATSSimulator._calculate_keyword_density > 0.05, keyword_words of the
\* word_count words of get_all_text being common resume keywords.
keyword_density_above_five_percent(rd) ==
    rd.word_count > 0 /\ rd.keyword_words * 100 > 5 * rd.word_count

\* ATSSimulator._apply_platform_adjustments.
apply_platform_adjustments(score, rd, ats_config) ==
    IF ats_config.name = "Workday"
    THEN (IF found_in_raw_text(rd, "complex") THEN score - 100000 ELSE score)
    ELSE IF ats_config.name = "Greenhouse"
    THEN (IF found_in_raw_text(rd, "modern") THEN score + 50000 ELSE score)
    ELSE IF ats_config.name = "iCIMS"
    THEN (IF keyword_density_above_five_percent(rd) THEN score + 80000 ELSE score)
    ELSE score

\* ATSSimulator._identify_ats_quirks: which of the three quirks are listed.
identify_ats_quirks(rd, ats_config) ==
    (IF ats_config.strict_parsing /\ found_in_raw_text(rd, "complex")
     THEN <<"strict parsing">> ELSE <<>>)
    \o (IF ats_config.favors_simple_format /\ ~found_in_raw_text(rd, "modern")
        THEN <<"simple formatting">> ELSE <<>>)
    \o (IF \E s \in Range(simulator_required_sections) : s \notin rd.sections
        THEN <<"missing sections">> ELSE <<>>)

\* ATSSimulator._perform_platform_analysis.
perform_platform_analysis(rd, jd, ats_config) ==
    LET kw == calculate_ats_keyword_score(rd, jd, ats_config)
        fm == calculate_ats_formatting_score(rd, ats_config)
        st == calculate_ats_structure_score(rd)
        weighted == kw * ats_config.keyword_weight + fm * ats_config.formatting_weight
                    + st * ats_config.structure_weight
    IN  [ats_score |-> Min(1000000, Max(0, apply_platform_adjustments(weighted, rd, ats_config))),
         keyword_score |-> kw,
         formatting_score |-> fm,
         structure_score |-> st,
         platform_weights |-> [keyword |-> ats_config.keyword_weight,
                               formatting |-> ats_config.formatting_weight,
                               structure |-> ats_config.structure_weight]]

\* The values random.uniform(2.5, 4.2) is drawn from, in hundredths.
ProcessingTimes == {250, 420}

chosen_platform_mutant_first(platform) == {ats_platforms[1].key}

\* if not platform: platform = random.choice(list(self.ats_platforms.keys()))
chosen_platform(platform) ==
    IF platform \in {None, ""} THEN platform_keys ELSE {platform}

\* ATSSimulator.simulate_ats_analysis with the platform and the processing
\* time that the run draws; a platform that is no key raises KeyError.
simulate_ats_analysis(rd, jd, platform, processing_time) ==
    IF platform \notin platform_keys THEN [raised |-> "KeyError"]
    ELSE LET ats_config == ats_config_of(platform)
             result == perform_platform_analysis(rd, jd, ats_config)
         IN  [ats_score |-> result.ats_score,
              keyword_score |-> result.keyword_score,
              formatting_score |-> result.formatting_score,
              structure_score |-> result.structure_score,
              platform_weights |-> result.platform_weights,
              ats_platform |-> ats_config.name,
              processing_time |-> processing_time,
              ats_quirks |-> identify_ats_quirks(rd, ats_config)]

SimulatorRawTexts ==
    {{}, {"- "}, {"accented letter"}, {"#"}, {"<table", "column"}, {"image", "font-size", "- "}}

\* A one-line resume and a full one; 1 of 20 words is exactly five percent.
SimulatorResumes ==
    {[raw_text |-> marks, skills |-> skills, sections |-> p.sections,
      contact_info |-> p.contact_info, experience |-> p.experience,
      education |-> p.education, keyword_words |-> p.keyword_words,
      word_count |-> p.keyword_words + p.other_words + Len(skills)] :
        marks \in SimulatorRawTexts,
        skills \in {<<>>, <<"python">>, <<"machine">>, <<"python", "machine">>},
        p \in {[sections |-> {}, contact_info |-> {}, experience |-> 0,
                education |-> FALSE, keyword_words |-> 0, other_words |-> 0],
               [sections |-> {"summary", "experience", "education", "skills"},
                contact_info |-> {"name", "email", "phone", "location"},
                experience |-> 5, education |-> TRUE, keyword_words |-> 1,
                other_words |-> 18]}}

\* Jobs of 0, 1, 2 and 4 keywords, whose shares are whole hundredths.
SimulatorJobs ==
    {[required_skills |-> <<>>, preferred_skills |-> <<>>],
     [required_skills |-> <<"python">>, preferred_skills |-> <<>>],
     [required_skills |-> <<"python">>, preferred_skills |-> <<"machine learning">>],
     [required_skills |-> <<"python", "machine learning">>, preferred_skills |-> <<>>],
     [required_skills |-> <<"python", "machine learning">>,
      preferred_skills |-> <<"machine learning", "python">>]}

\* ats_platform as the endpoint passes it on: absent, empty, a key of the
\* table, or a name that is no key.
PlatformArguments == {None, "", "generic"} \cup platform_keys

InitSimulate ==
    /\ pc = "start"
    /\ resume \in SimulatorResumes
    /\ job \in SimulatorJobs
    /\ request \in {[ats_platform |-> a] : a \in PlatformArguments}
    /\ ats_analysis = <<>>
    /\ response = None
    /\ formatting = None /\ keyword_analysis = None
    /\ LikelihoodIdle
    /\ AnalyzeIdle
    /\ ServiceIdle

\* One run; the endpoint is called twice with the same arguments.
SimulateAtsAnalysis ==
    /\ pc = "start"
    /\ Len(ats_analysis) < 2
    /\ \E platform \in chosen_platform(request.ats_platform),
          processing_time \in ProcessingTimes :
           ats_analysis' =
               Append(ats_analysis,
                      simulate_ats_analysis(resume, job, platform, processing_time))
    /\ pc' = IF Len(ats_analysis) = 1 THEN "done" ELSE "start"
    /\ UNCHANGED <<resume, job, request, response, formatting, keyword_analysis,
                   likelihood_vars, analyze_vars, service_vars>>

NextSimulate == SimulateAtsAnalysis

SpecSimulate == InitSimulate /\ [][NextSimulate]_vars

(***************************************************************************)
(* C25: two runs of the ATS analysis with the same resume, the same job    *)
(* and the same platform argument, an absent platform included, return     *)
(* the same ATS score and the same result fields.                          *)
(***************************************************************************)
C25_SameResult == pc = "done" => ats_analysis[1] = ats_analysis[2]

\* What the two runs share: with a platform named in the request they
\* agree on every field but processing_time; without one each run is the
\* analysis of some platform of the table, not always the same one.
C25_Scored(run) == [f \in (DOMAIN run) \ {"processing_time"} |-> run[f]]

C25_SameButTimeWhenPlatformGiven ==
    pc = "done" =>
        /\ request.ats_platform \notin {None, ""} =>
               \A i \in 1..2 :
                   C25_Scored(ats_analysis[i]) =
                       C25_Scored(simulate_ats_analysis(resume, job, request.ats_platform,
                                                        250))
        /\ request.ats_platform \in {None, ""} =>
               \A i \in 1..2 :
                   \E platform \in platform_keys :
                       C25_Scored(ats_analysis[i]) =
                           C25_Scored(simulate_ats_analysis(resume, job, platform, 250))
        /\ \A i \in 1..2 :
               "raised" \notin DOMAIN ats_analysis[i] =>
                   /\ ats_analysis[i].ats_score \in 0..1000000
                   /\ ats_analysis[i].processing_time \in ProcessingTimes

\* No platform in the request: one run scores for Workday, the other for
\* Greenhouse, and the ATS scores differ.
C25_Witness ==
    /\ pc = "done"
    /\ request.ats_platform = None
    /\ ats_analysis[1].ats_platform = "Workday"
    /\ ats_analysis[2].ats_platform = "Greenhouse"
    /\ ats_analysis[1].ats_score # ats_analysis[2].ats_score

(***************************************************************************)
(* The analyze_resume endpoints of main.py and of backend/main.py.         *)
(***************************************************************************)

HTTPException(status_code, detail) == [status_code |-> status_code, detail |-> detail]

\* A response that returns the analysis result.
AnalysisReturned == [status_code |-> 200, detail |-> "result"]

\* An exception of the pipeline, as the server answers it when nothing
\* catches it.
PipelineException == [status_code |-> 500, detail |-> "Internal Server Error"]

main_except_mutant_reraise(raised) == raised

\* main.py: `except Exception as e` around the whole body catches the
\* HTTPException of the validation as well as a failure of the pipeline.
main_except(raised) == HTTPException(500, "Analysis failed")

\* main.py analyze_resume; pipeline is what analysis_engine.analyze does.
main_analyze_resume(req, pipeline) ==
    IF req.job_description = "" /\ req.job_url = ""
    THEN main_except(HTTPException(400, "Job description or URL is required"))
    ELSE IF pipeline = "raises"
    THEN main_except(PipelineException)
    ELSE AnalysisReturned

\* str.strip() of a job description that is empty, blank or a text.
description_strip(job_description) ==
    IF job_description \in {"", "  "} THEN "" ELSE job_description

\* backend/main.py: the job description after the URL and the file are
\* read, or the HTTPException raised on the way; scraped is what
\* scrape_job_posting gives, parsed what parse_job_description_file gives.
backend_job_description(req, scraped, parsed) ==
    IF req.job_url # ""
    THEN (IF scraped = "raises" \/ description_strip(scraped) = ""
          THEN HTTPException(400, "Failed to scrape job posting")
          ELSE [text |-> scraped])
    ELSE IF req.job_description_file # None
    THEN (IF req.job_description_file \notin {"jd.pdf", "jd.docx", "jd.txt"}
          THEN HTTPException(400, "Job description file must be PDF, DOCX, or TXT format")
          ELSE [text |-> parsed])
    ELSE [text |-> req.job_description]

\* backend/main.py analyze_resume: `except HTTPException` re-raises the
\* exception as it is, `except Exception` answers 500.
backend_analyze_resume(req, scraped, parsed, pipeline) ==
    LET job_description == backend_job_description(req, scraped, parsed)
    IN  IF req.resume_filename \notin {"cv.pdf", "cv.docx"}
        THEN HTTPException(400, "Resume must be PDF or DOCX format")
        ELSE IF req.resume_empty
        THEN HTTPException(400, "Resume file is empty")
        ELSE IF "status_code" \in DOMAIN job_description
        THEN job_description
        ELSE IF description_strip(job_description.text) = ""
        THEN HTTPException(400, "Job description is required (provide text, file, or URL)")
        ELSE IF pipeline = "raises"
        THEN HTTPException(500, "Analysis failed")
        ELSE AnalysisReturned

Requests ==
    [resume_filename : {"cv.pdf", "cv.txt"},
     resume_empty : BOOLEAN,
     job_description : {"", "  ", "We need Python"},
     job_url : {"", "https://jobs.example/1"},
     job_description_file : {None, "jd.txt", "jd.png"}]

InitEndpoint ==
    /\ pc = "start"
    /\ request \in Requests
    /\ response = None
    /\ ats_analysis = None
    /\ LikelihoodIdle
    /\ AnalyzeIdle
    /\ FormattingIdle
    /\ KeywordIdle
    /\ ServiceIdle

MainAnalyzeResume ==
    /\ pc = "start"
    /\ \E pipeline \in {"returns", "raises"} :
           response' = main_analyze_resume(request, pipeline)
    /\ pc' = "main"
    /\ UNCHANGED <<request, ats_analysis, likelihood_vars, analyze_vars, formatting_vars,
                   keyword_vars, service_vars>>

BackendAnalyzeResume ==
    /\ pc = "start"
    /\ \E scraped \in {"raises", "", "We need Python"},
          parsed \in {"", "We need Python"},
          pipeline \in {"returns", "raises"} :
           response' = backend_analyze_resume(request, scraped, parsed, pipeline)
    /\ pc' = "backend"
    /\ UNCHANGED <<request, ats_analysis, likelihood_vars, analyze_vars, formatting_vars,
                   keyword_vars, service_vars>>

NextEndpoint == MainAnalyzeResume \/ BackendAnalyzeResume

SpecEndpoint == InitEndpoint /\ [][NextEndpoint]_vars

(***************************************************************************)
(* C26: a request with neither a job description nor a job URL (and no     *)
(* job description file) is answered 400, never 500.                       *)
(***************************************************************************)
C26_Insufficient ==
    /\ request.job_description = ""
    /\ request.job_url = ""
    /\ request.job_description_file = None

C26_InsufficientIsValidationFailure ==
    pc \in {"main", "backend"} /\ C26_Insufficient => response.status_code = 400

\* What the endpoints answer: backend/main.py answers 400, with the
\* job-description detail when the resume file passes its own checks;
\* main.py answers 500 "Analysis failed".  Neither returns a result.
C26_BackendRejectsMainFails ==
    C26_Insufficient =>
        /\ pc = "backend" =>
               /\ response.status_code = 400
               /\ (request.resume_filename = "cv.pdf" /\ ~request.resume_empty) =>
                      response.detail =
                          "Job description is required (provide text, file, or URL)"
        /\ pc = "main" => response = HTTPException(500, "Analysis failed")

\* main.py answering the request without job description and URL.
C26_Witness ==
    /\ pc = "main"
    /\ C26_Insufficient
    /\ response.status_code = 500

(***************************************************************************)
(* C27: the ATS score of the analysis is the sum of the scores of the      *)
(* three ATS drivers, and the recruiter score the sum of the scores of     *)
(* the three recruiter drivers.                                            *)
(***************************************************************************)
C27_DriverSum(first) ==
    analysis.score_drivers[first].score + analysis.score_drivers[first + 1].score
    + analysis.score_drivers[first + 2].score

C27_ScoreIsDriverSum ==
    pc = "done" =>
        /\ analysis.ats_score = C27_DriverSum(1)
        /\ analysis.recruiter_score = C27_DriverSum(4)

\* What the scores are: the recruiter drivers add up to at most 100 and to
\* the recruiter score; the ATS drivers add up to as much as 110, and the
\* ATS score is their sum cut at 100.
C27_AtsScoreIsCappedSum ==
    pc = "done" =>
        /\ analysis.recruiter_score = C27_DriverSum(4)
        /\ C27_DriverSum(4) <= 100
        /\ C27_DriverSum(1) <= 110
        /\ analysis.ats_score = IF C27_DriverSum(1) > 100 THEN 100 ELSE C27_DriverSum(1)

\* Format 40, keywords 40 and experience 30: drivers of 110, score 100.
C27_Witness ==
    /\ pc = "done"
    /\ C27_DriverSum(1) = 110
    /\ analysis.ats_score = 100

(***************************************************************************)
(* C28: for a job without required skills the fit level is "poor" for      *)
(* every resume, whatever experience_match is, and the likelihood score is *)
(* computed with the penalty 0.5: int((0.6 ats + 0.4 rec) * 0.15 * 0.8 *   *)
(* 0.5).                                                                   *)
(***************************************************************************)
C28_NoRequirementsIsPoor ==
    (pc = "done" /\ job_data.required_skills = {}) =>
        /\ likelihood_result.domain_fit.fit_level = "poor"
        /\ likelihood_result.domain_fit.skill_overlap_count = 0
        /\ likelihood_result.score = ((6 * ats_score + 4 * recruiter_score) * 6) \div 1000

\* A resume with skills and enough years, a job asking for years only.
C28_Witness ==
    /\ pc = "done"
    /\ job_data.required_skills = {}
    /\ job_data.requirements.years_experience_required > 0
    /\ resume_data.skills # {}
    /\ likelihood_result.domain_fit.experience_match
    /\ likelihood_result.domain_fit.fit_level = "poor"
    /\ likelihood_result.score = 6

(***************************************************************************)
(* C29: for every ATS and recruiter score in 0..100 and every fit level    *)
(* the likelihood score is at most 12, so the cap at 25 leaves it as it    *)
(* is and the explanation is never one of the bands from 15 and from 20.   *)
(***************************************************************************)
C29_Penalty ==
    CASE likelihood_result.domain_fit.fit_level = "poor" -> 5
      [] likelihood_result.domain_fit.fit_level = "moderate" -> 8
      [] OTHER -> 10

\* (0.6 ats + 0.4 rec) * 0.15 * 0.8 * penalty, times 100000.
C29_Uncapped == (6 * ats_score + 4 * recruiter_score) * 15 * 8 * C29_Penalty

C29_AtMostTwelve ==
    pc = "done" =>
        /\ likelihood_result.score <= 12
        /\ C29_Uncapped <= 12 * 100000
        /\ likelihood_result.score * 100000 <= C29_Uncapped
        /\ likelihood_result.explanation
               \in {"Very low chance", "Minimal chance", "Extremely low chance"}

\* The best case: both scores 100 with a good fit give 12.
C29_Witness ==
    /\ pc = "done"
    /\ ats_score = 100 /\ recruiter_score = 100
    /\ likelihood_result.domain_fit.fit_level = "good"
    /\ likelihood_result.score = 12
    /\ likelihood_result.explanation = "Very low chance"

(***************************************************************************)
(* C30: for a job with at least one required skill _find_similar_jobs      *)
(* returns three recommendations, the similar role, the entry-level and    *)
(* the senior position, whatever the resume's skills and years are: every  *)
(* match score is above the floor of 15.  The entry-level position asks    *)
(* for min(4, number of job skills) skills, none of them twice, in every   *)
(* order in which the job's skills can be listed, and the recommendation   *)
(* shows the first three of them.                                          *)
(***************************************************************************)
C30_JobSkills == Cardinality(job_data.required_skills)

C30_Titled(first_word) ==
    {i \in DOMAIN job_recommendations : job_recommendations[i].title[1] = first_word}

C30_EntryLevelSkills ==
    {get_entry_level_skills(job_skills_list, resume_data.skills) :
        job_skills_list \in Orderings(job_data.required_skills)}

C30_ThreeVariants ==
    /\ (pc = "start" /\ C30_JobSkills > 0) =>
           \A entry_level_skills \in C30_EntryLevelSkills :
               /\ Len(entry_level_skills) = Min(4, C30_JobSkills)
               /\ Len(entry_level_skills) >= 1
               /\ Cardinality(Range(entry_level_skills)) = Len(entry_level_skills)
               /\ Range(entry_level_skills) \subseteq job_data.required_skills
    /\ pc = "done" =>
           /\ Len(job_recommendations) = 3
           /\ \A first_word \in {"Similar", "Entry-Level", "Senior"} :
                  Cardinality(C30_Titled(first_word)) = 1
           /\ \A i \in DOMAIN job_recommendations :
                  job_recommendations[i].match_score >= 18
           /\ \A i \in C30_Titled("Entry-Level") :
                  /\ Len(job_recommendations[i].required_skills) = Min(3, C30_JobSkills)
                  /\ Range(job_recommendations[i].required_skills)
                         \subseteq job_data.required_skills
                  /\ Cardinality(Range(job_recommendations[i].required_skills)) =
                         Len(job_recommendations[i].required_skills)

\* A resume with none of the five skills of the job and no years: the
\* variants score 18 (senior, below its range) and 30, and all are returned.
C30_Witness ==
    /\ pc = "done"
    /\ C30_JobSkills = 5
    /\ resume_data.skills \cap job_data.required_skills = {}
    /\ Len(job_recommendations) = 3
    /\ job_recommendations[3].title[1] = "Senior"
    /\ job_recommendations[3].match_score = 18

====
